---- MODULE Spec2Model ----
(* Model of the K+K report decoder (kandk/kklib.py: KK_Report, Phase,      *)
(* C_ReportStruct) and of its callers.  Frames are C_ReportStruct values,  *)
(* a report is a KK_Report instance; the lists _floats, _ints and _phases  *)
(* are attributes of the class KK_Report and therefore one object shared   *)
(* by every instance.  The constructor is modelled step by step (one step  *)
(* per operation on shared state), so the same actions serve sequential    *)
(* and interleaved callers.                                                *)
EXTENDS Integers, Sequences, FiniteSets, TLC

(***************************************************************************)
(* Program constants                                                       *)
(***************************************************************************)
KK_MAX_CHANNELS == 24

KK_REPORT_MAX_BUFFER_SIZE == 512

KK_REPORT_CONTENT_SIZE == KK_REPORT_MAX_BUFFER_SIZE - 1 - 1 - 2 - 4 - 8

KK_REPORT_INDEX_DECIMALS == KK_MAX_CHANNELS * 16

(***************************************************************************)
(* Bounds of the model                                                     *)
(***************************************************************************)
\* content images 0..MaxSeed are offered as frame contents
MaxSeed == 3

\* error-code bytes 0..MaxErrByte (and 128, 255) are offered
MaxErrByte == 16

\* report-type bytes 0..MaxTagByte (and 200) are offered
MaxTagByte == 6

\* number of times the caller overwrites a buffer after a decode
MaxOverwrites == 1

\* Phase objects on their own: High in -MaxHigh..MaxHigh, Low and the
\* argument of from_float in quarters, at most MaxCalls calls of normalize
MaxHigh == 3

MaxLowQ == 9

MaxFloatQ == 13

MaxCalls == 2

\* raw headers on their own: bits 12-15 in 0..MaxHeaderTop
MaxHeaderTop == 8

Threads == {1, 2}

(***************************************************************************)
(* Enumerations                                                            *)
(***************************************************************************)
RTNames == <<"RT_NONE", "RT_ERROR", "RT_MESSAGE", "RT_PHASE", "RT_DOUBLE", "RT_INT32">>

\* Enum lookup KK_ReportType(value): a value that is no member raises
KK_ReportType(v) == IF v \in 0..5 THEN RTNames[v + 1] ELSE "ValueError"

\* Enum lookup C_Report_Error_Code(value): a value that is no member raises
C_Report_Error_Code(v) ==
    CASE v = 0 -> "CKK_DLL_Error"
      [] v = 1 -> "CKK_DLL_NoError"
      [] v = 3 -> "CKK_DLL_WriteError"
      [] v = 4 -> "CKK_DLL_ServerDownError"
      [] v = 6 -> "CKK_DLL_BufferTooSmall"
      [] v = 7 -> "CKK_DLL_DeviceNotConnected"
      [] v = 8 -> "CKK_DLL_BufferOverflow"
      [] v = 9 -> "CKK_DLL_HardwareFault"
      [] v = 10 -> "CKK_DLL_SourceNotFound"
      [] v = 11 -> "CKK_DLL_CmdIgnored"
      [] v = 12 -> "CKK_DLL_NotSupported"
      [] v = 13 -> "CKK_DLL_Reconnected"
      [] v = 14 -> "CKK_DLL_Recovered"
      [] v = 15 -> "CKK_DLL_EXCEPTION"
      [] OTHER -> "ValueError"

\* MapErrorCode with the first test made against CKK_DLL_Error instead of
\* CKK_DLL_NoError (code 0 taken for "no error", code 1 left to the else branch)
MapErrorCode_ZeroIsNoError(kk) ==
    CASE kk = "CKK_DLL_Error" -> "KK_NO_ERR"
      [] kk = "CKK_DLL_WriteError" -> "KK_ERR_WRITE"
      [] kk = "CKK_DLL_ServerDownError" -> "KK_ERR_SERVER_DOWN"
      [] kk = "CKK_DLL_DeviceNotConnected" -> "KK_ERR_DEVICE_NOT_CONNECTED"
      [] kk = "CKK_DLL_BufferOverflow" -> "KK_ERR_BUFFER_OVERFLOW"
      [] kk = "CKK_DLL_HardwareFault" -> "KK_HARDWARE_FAULT"
      [] kk = "CKK_DLL_CmdIgnored" -> "KK_CMD_IGNORED"
      [] kk = "CKK_DLL_Reconnected" -> "KK_ERR_RECONNECTED"
      [] kk = "CKK_DLL_Recovered" -> "KK_ERR_RECONNECTED"
      [] kk = "CKK_DLL_EXCEPTION" -> "KK_DLL_EXCEPTION"
      [] kk = "CKK_DLL_SourceNotFound" -> "KK_PARAM_ERROR"
      [] OTHER -> "KK_ERR"

\* The if/elif chain of KK_Report.__init__ on the looked-up enum member
MapErrorCode(kk) ==
    CASE kk = "CKK_DLL_NoError" -> "KK_NO_ERR"
      [] kk = "CKK_DLL_WriteError" -> "KK_ERR_WRITE"
      [] kk = "CKK_DLL_ServerDownError" -> "KK_ERR_SERVER_DOWN"
      [] kk = "CKK_DLL_DeviceNotConnected" -> "KK_ERR_DEVICE_NOT_CONNECTED"
      [] kk = "CKK_DLL_BufferOverflow" -> "KK_ERR_BUFFER_OVERFLOW"
      [] kk = "CKK_DLL_HardwareFault" -> "KK_HARDWARE_FAULT"
      [] kk = "CKK_DLL_CmdIgnored" -> "KK_CMD_IGNORED"
      [] kk = "CKK_DLL_Reconnected" -> "KK_ERR_RECONNECTED"
      [] kk = "CKK_DLL_Recovered" -> "KK_ERR_RECONNECTED"
      [] kk = "CKK_DLL_EXCEPTION" -> "KK_DLL_EXCEPTION"
      [] kk = "CKK_DLL_SourceNotFound" -> "KK_PARAM_ERROR"
      [] OTHER -> "KK_ERR"

(***************************************************************************)
(* Report header of an FXE measurement                                     *)
(***************************************************************************)
_ms == <<1, 2, 5, 10, 20, 50, 100, 200, 500, 1000, 2000, 5000, 10000, 20000>>

\* (aHeader & mask) >> shift for a mask of width bits starting at bit shift
BitField(aHeader, shift, width) == (aHeader \div (2 ^ shift)) % (2 ^ width)

header_to_interval_ms(aHeader) ==
    IF aHeader < 0 \/ aHeader >= 28672 THEN 0
    ELSE LET code == BitField(aHeader, 8, 4)
         IN  IF code > 13 THEN 0 ELSE _ms[code + 1]

\* header_to_PPI_mode without the exception for code 2
header_to_PPI_mode_NoInvalid(aHeader) ==
    IF aHeader < 0 \/ aHeader >= 28672 THEN -1
    ELSE BitField(aHeader, 6, 2)

header_to_PPI_mode(aHeader) ==
    IF aHeader < 0 \/ aHeader >= 28672 THEN -1
    ELSE LET code == BitField(aHeader, 6, 2)
         IN  IF code = 2 THEN -1 ELSE code

\* header_to_report_mode without the limit of 5 on the mode
header_to_report_mode_NoLimit(aHeader) ==
    IF aHeader < 0 \/ aHeader >= 28672 THEN -1
    ELSE BitField(aHeader, 12, 4)

header_to_report_mode(aHeader) ==
    IF aHeader < 0 \/ aHeader >= 28672 THEN -1
    ELSE LET code == BitField(aHeader, 12, 4)
         IN  IF code > 5 THEN -1 ELSE code

header_to_scrambler_mode(aHeader) ==
    IF aHeader < 0 \/ aHeader >= 28672 THEN -1
    ELSE BitField(aHeader, 4, 2)

(***************************************************************************)
(* ctypes field access                                                     *)
(***************************************************************************)
\* a c_byte field holds a byte and reads as a signed value
CByte(b) == IF b >= 128 THEN b - 256 ELSE b

(***************************************************************************)
(* Byte-level decoding                                                     *)
(***************************************************************************)
Reverse(s) == [i \in 1..Len(s) |-> s[Len(s) + 1 - i]]

RECURSIVE Pow2(_)
Pow2(n) == IF n <= 0 THEN 1 ELSE 2 * Pow2(n - 1)

AllZero(s) == \A i \in 1..Len(s) : s[i] = 0

\* struct.unpack('d', chunk)[0] on a little-endian host.  A double whose
\* magnitude is below 32 and that is a multiple of 1/4 is represented by its
\* numerator num (value = num / 4); every other double by its bit image
\* (most significant byte first).
unpack_d(chunk) ==
    LET sign == chunk[8] \div 128
        expo == (chunk[8] % 128) * 16 + chunk[7] \div 16
        nib  == chunk[7] % 16
        sh   == expo - 1025
        mag  == IF sh >= 0 THEN (16 + nib) * Pow2(sh) ELSE (16 + nib) \div Pow2(-sh)
        fits == /\ AllZero(SubSeq(chunk, 1, 6))
                /\ expo \in 1021..1027
                /\ (sh >= 0 \/ mag * Pow2(-sh) = 16 + nib)
    IN  IF AllZero(chunk) THEN [exact |-> TRUE, num |-> 0, bits |-> <<>>]
        ELSE IF fits THEN [exact |-> TRUE, num |-> IF sign = 1 THEN -mag ELSE mag, bits |-> <<>>]
        ELSE [exact |-> FALSE, num |-> 0, bits |-> Reverse(chunk)]

\* int.from_bytes(chunk, byteorder='little') of 8 bytes: an unsigned value.
\* Values below 2^24 are [w |-> 0, o |-> value]; values 2^64 - k with
\* 0 < k <= 2^24 are [w |-> 1, o |-> -k] (value = w * 2^64 + o); every other
\* value is kept as its digits (most significant first).
from_bytes_little8(chunk) ==
    LET low3 == chunk[1] + 256 * chunk[2] + 65536 * chunk[3]
    IN  IF \A i \in 4..8 : chunk[i] = 0
          THEN [w |-> 0, o |-> low3, digits |-> <<>>]
        ELSE IF \A i \in 4..8 : chunk[i] = 255
          THEN [w |-> 1, o |-> low3 - 16777216, digits |-> <<>>]
        ELSE [w |-> 2, o |-> 0, digits |-> Reverse(chunk)]

\* int.from_bytes(chunk, byteorder='little') of 4 bytes, as base-256 digits
\* (most significant first)
from_bytes_little4(chunk) == Reverse(chunk)

(***************************************************************************)
(* Frames: the values of a C_ReportStruct                                  *)
(***************************************************************************)
\* one element of the measurement image: 8 bytes integer, 8 bytes double
LowTable == << <<208, 191>>, <<232, 63>>, <<248, 63>>, <<208, 63>> >>

\* byte j (0-based) of content image number seed
ContentByte(seed, j) ==
    CASE seed = 0 -> 0
      [] seed = 1 -> ( CASE j % 16 = 0  -> ((j \div 16) % 3) + 1
                         [] j % 16 = 14 -> LowTable[((j \div 16) % 4) + 1][1]
                         [] j % 16 = 15 -> LowTable[((j \div 16) % 4) + 1][2]
                         [] OTHER -> 0 )
      [] seed = 2 -> 1 + (j % 127)
      [] seed = -1 -> ( CASE j % 16 = 0  -> 255 - ((j \div 16) % 3)
                          [] j % 16 \in 1..7 -> 255
                          [] j % 16 = 14 -> LowTable[((j \div 16) % 4) + 1][1]
                          [] j % 16 = 15 -> LowTable[((j \div 16) % 4) + 1][2]
                          [] OTHER -> 0 )
      [] OTHER -> IF j = 0 THEN 2 ELSE (256 - (((seed - 2) * j) % 256)) % 256

ContentImage(seed) == [i \in 1..KK_REPORT_CONTENT_SIZE |-> ContentByte(seed, i - 1)]

Frame(tag, err, hdr, len, ms, seed) ==
    [ReportType |-> tag, ErrCode |-> err, Header |-> hdr, Len |-> len,
     DeviceMs |-> ms, Content |-> ContentImage(seed)]

\* a freshly constructed C_ReportStruct() is zero-filled
ZeroFrame == Frame(0, 0, 0, 0, 0, 0)

TagBytes == (0..MaxTagByte) \cup {200}

ErrBytes == (0..MaxErrByte) \cup {128, 255}

Headers == {12869, 28672, 28673, 28693, 28694, 32752}

Lens == {-16, -1, 0, 8, 15, 16, 32, 384, 400, 496, 497, 512}

\* every report-type byte with every error-code byte
FramesTagErr == { Frame(tag, err, 12869, 16, 7, 1) : tag \in TagBytes, err \in ErrBytes }

\* measurement frames of every length
FramesLen == { Frame(tag, 1, 12869, len, 7, 1) : tag \in {3, 4, 5}, len \in Lens }

\* message frames: every header with text-sized and integer-sized contents
FramesMsg == UNION { { Frame(2, 1, hdr, len, 7, seed) : hdr \in Headers, len \in {0, 2, 4, 5} } : seed \in 2..MaxSeed }

\* error frames with and without a text
FramesErr == UNION { { Frame(1, 3, 12869, len, 7, seed) : len \in {0, 2, 5} } : seed \in 2..MaxSeed }

FramesMs == { Frame(tag, 1, 12869, 0, ms, 0) : tag \in 0..5, ms \in {-1, 0} }

Frames == FramesTagErr \cup FramesLen \cup FramesMsg \cup FramesErr \cup FramesMs

\* frames of the second decoder
OtherFrames == { Frame(tag, 1, 12869, len, 7, 0) : tag \in {3, 4, 5}, len \in {0, 16} } \cup { Frame(6, 1, 12869, 16, 7, 0) }

FramesOf(t) == IF t = 1 THEN Frames ELSE OtherFrames

(***************************************************************************)
(* State                                                                   *)
(***************************************************************************)
VARIABLES
    buf,         \* buf[t]: the C_ReportStruct that thread t handed to KK_Report
    rep,         \* rep[t]: the KK_Report instance of thread t (and its constructor's position)
    cls_floats,  \* KK_Report._floats, the list object created in the class body
    cls_ints,    \* KK_Report._ints
    cls_phases,  \* KK_Report._phases
    touched,     \* touched[t]: overwrites of buf[t] since report t was decoded
    aPhase,          \* a Phase object on its own: its arguments, its fields, the calls made on it
    hd,          \* a raw header and what the header_to_* functions returned for it
    s26,         \* a Phase.to_str26 call: the Phase, the decimals asked for, the string returned
    fc,          \* a FrequencyCounter, its native library and the call in progress
    cam,         \* a Camera, its lock, its acquisition thread and its caller
    wm           \* a Wavemeter and the callback installed in the wlmData library

\* the state of the drivers and of a to_str26 call, which KK_Report leaves alone
drivers == <<s26, fc, cam, wm>>

vars == <<buf, rep, cls_floats, cls_ints, cls_phases, touched, aPhase, hd, drivers>>

\* an integer of up to 36 bits in two parts: the value is hi * 2^16 + lo
Wide(hi, lo) == [hi |-> hi, lo |-> lo]

\* t *= 10 on such an integer
Times10(w) == Wide(10 * w.hi + (10 * w.lo) \div 65536, (10 * w.lo) % 65536)

\* the class-level defaults of KK_Report, before __init__ has run
NoReport ==
    [pc |-> "idle", exc |-> "", rt |-> "RT_NONE", i |-> 0,
     channelCount |-> 0, content_set |-> FALSE, content |-> <<>>,
     dec_set |-> FALSE, c_decimals |-> <<>>, error_code |-> "KK_NO_ERR",
     dbg_set |-> FALSE, dbg_str |-> <<>>, log_set |-> FALSE, log_str |-> <<>>,
     asked |-> {}, timestamp |-> Wide(0, 0), is_ts |-> FALSE,
     device_ms |-> [exc |-> "", val |-> 0]]

\* no Phase object under observation
NoPhase ==
    [pc |-> "none", ctor |-> "", aHigh |-> 0, aLow |-> 0, aFloat |-> 0,
     High |-> 0, Low |-> 0, calls |-> 0, flt_set |-> FALSE, flt |-> 0]

\* no raw header under observation
NoHeader ==
    [pc |-> "none", aHeader |-> 0, called |-> {},
     interval |-> 0, ppi |-> 0, mode |-> 0, scrambler |-> 0]

\* no to_str26 call under observation
NoStr26 ==
    [pc |-> "none", aHigh |-> [neg |-> FALSE, digits |-> <<0>>], aLow |-> 0,
     decimals |-> 0, sep |-> ".", High |-> [neg |-> FALSE, digits |-> <<0>>],
     Low |-> 0, result |-> <<>>]

\* FrequencyCounter.__init__: no source id yet
NoCounter ==
    [sid |-> 0, pc |-> "idle", polled |-> FALSE,
     last |-> [op |-> "", exc |-> "", val |-> <<>>],
     sources |-> 0, connected |-> FALSE, connections |-> 0, closes |-> 0]

\* Camera.__init__: no thread, an empty queue, a cleared event, a free lock
NoCamera ==
    [caller |-> "idle", op |-> "", lock |-> "free", stop |-> FALSE, thread |-> FALSE,
     acq |-> "none", streaming |-> FALSE, pending |-> 0, images |-> 0,
     in_ctx |-> FALSE, due |-> 0, lost |-> 0, sessions |-> 0, triggers |-> 0]

\* Wavemeter.__init__: no library, no handle
NoWavemeter ==
    [dll |-> FALSE, handle |-> 0, installed |-> 0, handles |-> 0, events |-> 0,
     last |-> [op |-> "", exc |-> ""]]

\* nothing but KK_Report, a Phase or a header is under observation
DriversIdle == s26 = NoStr26 /\ fc = NoCounter /\ cam = NoCamera /\ wm = NoWavemeter

\* results of calls: a value, or the exception that the call raised
Ok(v) == [exc |-> "", val |-> v]

Raise(e, v) == [exc |-> e, val |-> v]

(***************************************************************************)
(* KK_Report getters, as functions of the instance r and of the struct f   *)
(* that r._intern refers to                                                *)
(***************************************************************************)
get_report_type(f) == KK_ReportType(CByte(f.ReportType))

ElementSize(rt) ==
    CASE rt = "RT_PHASE" -> 16
      [] rt = "RT_DOUBLE" -> 8
      [] rt = "RT_INT32" -> 4
      [] OTHER -> 0

\* get_channel_count: the new value of r._channelCount (which it returns)
get_channel_count(r, f) ==
    IF r.channelCount # 0 THEN Ok(r.channelCount)
    ELSE LET rt == get_report_type(f)
             size == ElementSize(rt)
             cc == IF size > 0 THEN f.Len \div size ELSE r.channelCount
         IN  IF rt = "ValueError" THEN Raise("ValueError", 0)
             ELSE IF size * cc # f.Len THEN Ok(0) ELSE Ok(cc)

\* get_content: [exc, set, val], set = FALSE standing for None
get_content(r, f) ==
    IF r.content_set THEN [exc |-> "", set |-> TRUE, val |-> r.content]
    ELSE IF f.Len = 0 THEN [exc |-> "", set |-> FALSE, val |-> <<>>]
    ELSE IF f.Len > KK_REPORT_CONTENT_SIZE THEN [exc |-> "IndexError", set |-> FALSE, val |-> <<>>]
    ELSE IF f.Len < 0 THEN [exc |-> "", set |-> TRUE, val |-> <<>>]
    ELSE [exc |-> "", set |-> TRUE, val |-> SubSeq(f.Content, 1, f.Len)]

\* int.from_bytes(ba, byteorder='little') of the first n content bytes
LittleEndian(f, n) ==
    IF n = 2 THEN Wide(0, f.Content[2] * 256 + f.Content[1])
    ELSE Wide(f.Content[4] * 256 + f.Content[3], f.Content[2] * 256 + f.Content[1])

\* int.from_bytes(ba, byteorder='big') of the first n content bytes
BigEndian(f, n) ==
    IF n = 2 THEN Wide(0, f.Content[1] * 256 + f.Content[2])
    ELSE Wide(f.Content[1] * 256 + f.Content[2], f.Content[3] * 256 + f.Content[4])

get_content_uint16(f) == IF f.Len < 2 THEN 65535 ELSE BigEndian(f, 2).lo

\* 0xFFFFFFFF is Wide(65535, 65535)
get_content_uint32(f) == IF f.Len < 4 THEN Wide(65535, 65535) ELSE BigEndian(f, 4)

\* get_decimals: [exc, set, val], set = FALSE standing for None
get_decimals(r, f) ==
    IF r.dec_set THEN [exc |-> "", set |-> TRUE, val |-> r.c_decimals]
    ELSE LET rt == get_report_type(f)
         IN  IF rt = "ValueError" THEN [exc |-> "ValueError", set |-> FALSE, val |-> <<>>]
             ELSE IF rt \in {"RT_DOUBLE", "RT_PHASE"}
               THEN [exc |-> "", set |-> TRUE,
                     val |-> SubSeq(f.Content, KK_REPORT_INDEX_DECIMALS + 1,
                                    KK_REPORT_INDEX_DECIMALS + KK_MAX_CHANNELS)]
             ELSE [exc |-> "", set |-> FALSE, val |-> <<>>]

\* get_device_ms without the sentinel for reports of kind None
get_device_ms_NoneNotSpecial(f) ==
    LET rt == get_report_type(f)
    IN  IF rt = "ValueError" THEN Raise("ValueError", 0) ELSE Ok(f.DeviceMs)

get_device_ms(f) ==
    LET rt == get_report_type(f)
    IN  IF rt = "ValueError" THEN Raise("ValueError", 0)
        ELSE IF rt = "RT_NONE" THEN Ok(-1) ELSE Ok(f.DeviceMs)

get_error_code(r, f) ==
    LET rt == get_report_type(f)
    IN  IF rt = "ValueError" THEN Raise("ValueError", "")
        ELSE IF rt = "RT_ERROR" THEN Ok(r.error_code) ELSE Ok("KK_NO_ERR")

\* get_timestamp with the seconds of header 0x7015 left unscaled
get_timestamp_Unscaled(f) ==
    IF f.Header = 28693 \/ f.Header = 28694 THEN get_content_uint32(f)
    ELSE Wide(0, -1)

\* get_timestamp: the timestamp as a Wide, -1 being Wide(0, -1)
get_timestamp(f) ==
    IF f.Header = 28693 \/ f.Header = 28694
      THEN LET t == get_content_uint32(f)
           IN  IF f.Header = 28693 THEN Times10(t) ELSE t
    ELSE Wide(0, -1)

is_timestamp(f) == f.Header = 28693 \/ f.Header = 28694

get_header(f) ==
    LET rt == get_report_type(f)
    IN  IF rt = "ValueError" THEN Raise("ValueError", 0)
        ELSE IF rt \in {"RT_NONE", "RT_ERROR"} THEN Ok(-1) ELSE Ok(f.Header)

get_phases(f, phases) ==
    LET rt == get_report_type(f)
    IN  IF rt = "ValueError" THEN Raise("ValueError", <<>>)
        ELSE IF rt = "RT_PHASE" THEN Ok(phases) ELSE Ok(<<>>)

(***************************************************************************)
(* Phase                                                                   *)
(***************************************************************************)
\* math.trunc of a value given in quarters
TruncQ(num) == IF num >= 0 THEN num \div 4 ELSE -((-num) \div 4)

\* Phase.normalize with the carry added to High but only the integer part of
\* Low taken off Low
NormalizeHL_CarryDropped(high, low) ==
    LET d == IF 4 * high + low < 0
               THEN (IF low > 0 THEN TruncQ(low) + 1 ELSE TruncQ(low))
               ELSE (IF low < 0 THEN TruncQ(low) - 1 ELSE TruncQ(low))
    IN  <<high + d, low - 4 * TruncQ(low)>>

\* Phase.normalize on High = high (an integer) and Low = low / 4:
\* the pair <<High, 4 * Low>> after the call
NormalizeHL(high, low) ==
    LET d == IF 4 * high + low < 0
               THEN (IF low > 0 THEN TruncQ(low) + 1 ELSE TruncQ(low))
               ELSE (IF low < 0 THEN TruncQ(low) - 1 ELSE TruncQ(low))
    IN  <<high + d, low - 4 * d>>

\* Phase.from_float with math.floor in the place of math.trunc
from_float_Floor(aFloat) ==
    LET aHigh == aFloat \div 4
    IN  [High |-> aHigh, Low |-> aFloat - 4 * aHigh]

\* Phase.from_float on aFloat / 4: the fields of the new Phase, Low in quarters
from_float(aFloat) ==
    LET aHigh == TruncQ(aFloat)
    IN  [High |-> aHigh, Low |-> aFloat - 4 * aHigh]

\* Phase.to_float on High = high and Low = low / 4: the float, in quarters
to_float(high, low) == 4 * high + low

\* Phase.normalize on a decoded phase.  High = w * 2^64 + o; for w = 1 the
\* sum High + Low is positive whatever o is.  Phases outside the modelled
\* domain (w = 2 or an inexact Low) are marked w = 3.
normalize(p) ==
    IF p.High.w = 0 /\ p.Low.exact
      THEN LET n == NormalizeHL(p.High.o, p.Low.num)
           IN  [High |-> [p.High EXCEPT !.o = n[1]], Low |-> [p.Low EXCEPT !.num = n[2]]]
    ELSE IF p.High.w = 1 /\ p.Low.exact
      THEN LET d == IF p.Low.num < 0 THEN TruncQ(p.Low.num) - 1 ELSE TruncQ(p.Low.num)
           IN  [High |-> [p.High EXCEPT !.o = p.High.o + d],
                Low |-> [p.Low EXCEPT !.num = p.Low.num - 4 * d]]
    ELSE [p EXCEPT !.High.w = 3]

(***************************************************************************)
(* Strings: a string is a sequence of tokens, one per formatted piece      *)
(***************************************************************************)
Lit(str) == [k |-> "lit", s |-> str, v |-> <<>>]

\* str(n) of an integer
Dec(n) == [k |-> "dec", s |-> "", v |-> <<n>>]

RECURSIVE HexDigits(_, _)
\* the digits of "%0<width>x" % n, n >= 0
HexDigits(n, width) ==
    IF n < 16 /\ width <= 1 THEN <<n>>
    ELSE Append(HexDigits(n \div 16, width - 1), n % 16)

Hex(n, width) == [k |-> "hex", s |-> "", v |-> HexDigits(n, width)]

\* "%08x" % n for a Wide n below 2^32
HexWide(w) == [k |-> "hex", s |-> "", v |-> HexDigits(w.hi, 4) \o HexDigits(w.lo, 4)]

\* str(n) of a Wide n
DecWide(w) == [k |-> "dec", s |-> "", v |-> <<w.hi, w.lo>>]

\* bytes.decode() of valid UTF-8
Text(bytes) == [k |-> "text", s |-> "", v |-> bytes]

\* ''.join(format(x, '02x') for x in bytes)
HexBytes(bytes) == [k |-> "hexbytes", s |-> "", v |-> bytes]

\* str(aFloat) of a decoded double
FloatStr(d) == IF d.exact THEN [k |-> "float", s |-> "", v |-> <<d.num>>]
               ELSE [k |-> "floatbits", s |-> "", v |-> d.bits]

\* hex(aInt) of a decoded 32-bit value
HexInt(digits) == [k |-> "hexint", s |-> "", v |-> digits]

\* Phase.to_float() then str(): High + Low as one float (in quarters when High < 2^24)
PhaseFloatStr(p) ==
    IF p.High.w = 0 /\ p.Low.exact THEN [k |-> "float", s |-> "", v |-> <<4 * p.High.o + p.Low.num>>]
    ELSE [k |-> "floatsum", s |-> "", v |-> <<p.High.w, p.High.o, p.Low.num>>]

\* Phase.to_str26(decimals): the string for the normalized phase
Str26(p, decimals) ==
    LET dec == IF decimals < 7 THEN 7 ELSE IF decimals > 11 THEN 11 ELSE decimals
    IN  [k |-> "str26", s |-> "", v |-> <<p.High.w, p.High.o, p.Low.num, dec>>]

RECURSIVE Utf8Valid(_, _)
\* bytes[i..] is well-formed UTF-8 (what bytes.decode() accepts)
Utf8Valid(b, i) ==
    LET n == Len(b)
        cont(j, lo, hi) == j <= n /\ b[j] >= lo /\ b[j] <= hi
    IN  IF i > n THEN TRUE
        ELSE IF b[i] < 128 THEN Utf8Valid(b, i + 1)
        ELSE IF b[i] \in 194..223 THEN cont(i + 1, 128, 191) /\ Utf8Valid(b, i + 2)
        ELSE IF b[i] = 224 THEN cont(i + 1, 160, 191) /\ cont(i + 2, 128, 191) /\ Utf8Valid(b, i + 3)
        ELSE IF b[i] = 237 THEN cont(i + 1, 128, 159) /\ cont(i + 2, 128, 191) /\ Utf8Valid(b, i + 3)
        ELSE IF b[i] \in 225..239 THEN cont(i + 1, 128, 191) /\ cont(i + 2, 128, 191) /\ Utf8Valid(b, i + 3)
        ELSE IF b[i] = 240 THEN cont(i + 1, 144, 191) /\ cont(i + 2, 128, 191) /\ cont(i + 3, 128, 191) /\ Utf8Valid(b, i + 4)
        ELSE IF b[i] \in 241..243 THEN cont(i + 1, 128, 191) /\ cont(i + 2, 128, 191) /\ cont(i + 3, 128, 191) /\ Utf8Valid(b, i + 4)
        ELSE IF b[i] = 244 THEN cont(i + 1, 128, 143) /\ cont(i + 2, 128, 191) /\ cont(i + 3, 128, 191) /\ Utf8Valid(b, i + 4)
        ELSE FALSE

TextHeaders == {28673, 28706, 28720, 30978, 32547, 32576}

\* the result of a string call: ret = [exc, set, val] (set = FALSE is None),
\* r = the instance after the call, phases = KK_Report._phases after the call
StrResult(exc, set, val, r, phases) ==
    [ret |-> [exc |-> exc, set |-> set, val |-> val], r |-> r, phases |-> phases]

\* the instance after get_content() has run against struct f
WithContent(r, f) ==
    LET c == get_content(r, f)
    IN  IF c.exc = "IndexError"
          THEN [r EXCEPT !.content_set = TRUE, !.content = f.Content]
          ELSE [r EXCEPT !.content_set = c.set, !.content = c.val]

\* get_error_text / get_message once the report type has matched:
\* [exc, set, val] with val the decoded text
ContentText(r, f) ==
    LET c == get_content(r, f)
    IN  IF c.exc # "" THEN [exc |-> c.exc, set |-> FALSE, val |-> <<>>]
        ELSE IF ~c.set THEN [exc |-> "", set |-> FALSE, val |-> <<>>]
        ELSE IF ~Utf8Valid(c.val, 1) THEN [exc |-> "UnicodeDecodeError", set |-> FALSE, val |-> <<>>]
        ELSE [exc |-> "", set |-> TRUE, val |-> <<Text(c.val)>>]

\* str + x where x is the result of ContentText: None cannot be concatenated
ConcatExc(x) == IF x.exc # "" THEN x.exc ELSE IF ~x.set THEN "TypeError" ELSE ""

get_device_ms_str(f) ==
    LET ms == get_device_ms(f).val
    IN  IF ms = -1 THEN <<>> ELSE <<Lit(" ms="), Dec(ms)>>

RECURSIVE JoinSemi(_, _, _)
\* items[1..n] rendered by tok, each followed by ";" (trail) or separated by ";"
JoinSemi(items, n, trail) ==
    IF n = 0 THEN <<>>
    ELSE IF trail THEN JoinSemi(items, n - 1, trail) \o <<items[n], Lit(";")>>
    ELSE IF n = 1 THEN <<items[1]>>
    ELSE JoinSemi(items, n - 1, trail) \o <<Lit(";"), items[n]>>

\* get_measurement_str: [exc, val]
get_measurement_str(r, f, floats, ints, phases) ==
    LET rt == get_report_type(f)
    IN  CASE rt = "RT_PHASE" ->
               Ok(<<Lit("Phases: ")>> \o
                  JoinSemi([i \in 1..Len(phases) |-> PhaseFloatStr(phases[i])], Len(phases), TRUE))
          [] rt = "RT_DOUBLE" ->
               Ok(<<Lit("Doubles: ")>> \o
                  JoinSemi([i \in 1..Len(floats) |-> FloatStr(floats[i])], Len(floats), TRUE))
          [] rt = "RT_INT32" ->
               IF r.channelCount > Len(ints) THEN Raise("IndexError", <<>>)
               ELSE LET n == IF r.channelCount < 0 THEN 0 ELSE r.channelCount
                    IN  Ok(<<Lit("Int32: ")>> \o
                           JoinSemi([i \in 1..n |-> HexInt(ints[i])], n, TRUE))
          [] OTHER -> Ok(<<>>)

\* the instance after get_decimals() has run against struct f
WithDecimals(r, f) ==
    LET d == get_decimals(r, f)
    IN  IF d.exc # "" THEN r ELSE [r EXCEPT !.dec_set = d.set, !.c_decimals = d.val]

Min(a, b) == IF a < b THEN a ELSE b

\* KK_Report.to_dbg_str
to_dbg_str(r, f, floats, ints, phases) ==
    LET rt == get_report_type(f)
        prefix == <<Lit(rt)>> \o get_device_ms_str(f) \o
                  <<Lit(" header=0x"), Hex(f.Header, 4), Lit(" len="), Dec(f.Len), Lit(" ")>>
        r1 == [r EXCEPT !.dbg_set = TRUE, !.dbg_str = prefix]
        done(rr, str) == StrResult("", TRUE, str, [rr EXCEPT !.dbg_set = TRUE, !.dbg_str = str], phases)
        fail(rr, e) == StrResult(e, FALSE, <<>>, rr, phases)
        txt == ContentText(r, f)
        c == get_content(r, f)
        m == get_measurement_str(r, f, floats, ints, phases)
    IN  IF r.dbg_set THEN StrResult("", TRUE, r.dbg_str, r, phases)
        ELSE IF rt = "ValueError" THEN fail(r, "ValueError")
        ELSE IF rt = "RT_NONE" THEN StrResult("", FALSE, <<>>, r, phases)
        ELSE IF rt = "RT_ERROR" THEN
            IF ConcatExc(txt) # "" THEN fail(WithContent(r, f), ConcatExc(txt))
            ELSE done(WithContent(r, f),
                      <<Lit(rt), Lit(" "), Lit(get_error_code(r, f).val), Lit(": ")>> \o txt.val)
        ELSE IF rt = "RT_MESSAGE" THEN
            IF f.Len = 2 THEN done(r1, prefix \o <<Lit("0x"), Hex(get_content_uint16(f), 4)>>)
            ELSE IF f.Len = 4 THEN done(r1, prefix \o <<Lit("0x"), HexWide(get_content_uint32(f))>>)
            ELSE IF f.Header \in TextHeaders \/ f.Header >= 32752 THEN
                IF ConcatExc(txt) # "" THEN fail(WithContent(r1, f), ConcatExc(txt))
                ELSE done(WithContent(r1, f), prefix \o txt.val)
            ELSE IF c.exc # "" THEN fail(WithContent(r1, f), c.exc)
            ELSE IF ~c.set THEN fail(WithContent(r1, f), "TypeError")
            ELSE done(WithContent(r1, f), prefix \o <<HexBytes(c.val)>>)
        ELSE IF m.exc # "" THEN fail(r1, m.exc)
        ELSE done(r1, prefix \o <<Lit(" ")>> \o m.val)

\* KK_Report.to_log_str
to_log_str(r, f, floats, ints, phases) ==
    LET rt == get_report_type(f)
        prefix == <<Hex(f.Header, 4)>> \o (IF f.Header # 28673 THEN <<Lit("; ")>> ELSE <<>>)
        r1 == [r EXCEPT !.log_set = TRUE, !.log_str = prefix]
        rd == WithDecimals(r1, f)
        done(rr, str, ph) == StrResult("", TRUE, str, [rr EXCEPT !.log_set = TRUE, !.log_str = str], ph)
        fail(rr, e, ph) == StrResult(e, FALSE, <<>>, rr, ph)
        txt == ContentText(r, f)
        c == get_content(r, f)
        content_int == IF f.Len = 2 THEN Wide(0, get_content_uint16(f))
                       ELSE IF f.Len = 4 THEN get_content_uint32(f) ELSE Wide(0, 0)
        cc == IF r.channelCount < 0 THEN 0 ELSE r.channelCount
        \* phases that reach to_str26 (and are normalized by it) before the loop ends or raises
        np == Min(cc, Min(Len(phases), KK_MAX_CHANNELS))
        ph1 == [i \in 1..Len(phases) |-> IF i <= np THEN normalize(phases[i]) ELSE phases[i]]
    IN  IF r.log_set THEN StrResult("", TRUE, r.log_str, r, phases)
        ELSE IF rt = "ValueError" THEN fail(r, "ValueError", phases)
        ELSE IF rt = "RT_NONE" THEN StrResult("", FALSE, <<>>, r, phases)
        ELSE IF rt = "RT_ERROR" THEN
            IF ConcatExc(txt) # "" THEN fail(WithContent(r, f), ConcatExc(txt), phases)
            ELSE done(WithContent(r, f),
                      <<Lit("ERROR "), Lit(get_error_code(r, f).val), Lit(": ")>> \o txt.val, phases)
        ELSE IF rt = "RT_MESSAGE" THEN
            IF f.Header \in TextHeaders THEN
                IF ConcatExc(txt) # "" THEN fail(WithContent(r1, f), ConcatExc(txt), phases)
                ELSE done(WithContent(r1, f), prefix \o txt.val, phases)
            ELSE IF f.Header = 28693 THEN done(r1, prefix \o <<DecWide(Times10(content_int))>>, phases)
            ELSE IF f.Header = 28694 THEN done(r1, prefix \o <<DecWide(content_int)>>, phases)
            ELSE IF f.Header >= 32752 THEN
                IF ConcatExc(txt) # "" THEN fail(WithContent(r1, f), ConcatExc(txt), phases)
                ELSE done(WithContent(r1, f), prefix \o txt.val, phases)
            ELSE IF f.Len = 2 THEN done(r1, prefix \o <<Lit("0x"), Hex(content_int.lo, 4)>>, phases)
            ELSE IF f.Len = 4 THEN done(r1, prefix \o <<Lit("0x"), HexWide(content_int)>>, phases)
            ELSE IF c.exc # "" THEN fail(WithContent(r1, f), c.exc, phases)
            ELSE IF ~c.set THEN fail(WithContent(r1, f), "TypeError", phases)
            ELSE done(WithContent(r1, f), prefix \o <<HexBytes(c.val)>>, phases)
        ELSE IF rt = "RT_INT32" THEN
            IF cc > Len(ints) THEN fail(r1, "IndexError", phases)
            ELSE done(r1, prefix \o JoinSemi([i \in 1..cc |-> HexInt(ints[i])], cc, FALSE), phases)
        ELSE IF rt = "RT_DOUBLE" THEN
            IF cc > Len(floats) THEN fail(rd, "IndexError", phases)
            ELSE done(rd, prefix \o JoinSemi([i \in 1..cc |-> FloatStr(floats[i])], cc, FALSE), phases)
        ELSE IF cc > np THEN fail(rd, "IndexError", ph1)
        ELSE done(rd, prefix \o JoinSemi([i \in 1..cc |-> Str26(ph1[i], rd.c_decimals[i])], cc, FALSE), ph1)

(***************************************************************************)
(* Decoding of one channel, as the loops of KK_Report.__init__ do it       *)
(***************************************************************************)
\* ba[offset : offset + n] with a 0-based offset
Chunk(ba, offset, n) == SubSeq(ba, offset + 1, offset + n)

DecodeDouble(ba, i) == unpack_d(Chunk(ba, 8 * i, 8))

DecodePhase(ba, i) ==
    [High |-> from_bytes_little8(Chunk(ba, 16 * i, 8)),
     Low |-> unpack_d(Chunk(ba, 16 * i + 8, 8))]

DecodeInt(ba, i) == from_bytes_little4(Chunk(ba, 4 * i, 4))

(***************************************************************************)
(* Actions                                                                 *)
(***************************************************************************)
Quiet(t) == rep[t].pc \in {"idle", "done", "raised"}

\* NativeLib.get_kk_report: the library fills a new C_ReportStruct with
\* frame f and KK_Report(c_report_struct) is entered
GetReportStruct(t, f) ==
    /\ rep[t].pc = "idle"
    /\ buf' = [buf EXCEPT ![t] = f]
    /\ rep' = [rep EXCEPT ![t] = [NoReport EXCEPT !.pc = "errcode"]]
    /\ UNCHANGED <<drivers, aPhase, hd, cls_floats, cls_ints, cls_phases, touched>>

\* __init__: self._intern = report_struct; the error-code chain
Init_ErrCode(t) ==
    /\ rep[t].pc = "errcode"
    /\ LET kk == C_Report_Error_Code(CByte(buf[t].ErrCode))
       IN  rep' = [rep EXCEPT ![t] =
                     IF kk = "ValueError"
                       THEN [@ EXCEPT !.pc = "raised", !.exc = "ValueError"]
                       ELSE [@ EXCEPT !.pc = "clear_floats", !.error_code = MapErrorCode(kk),
                                      !.channelCount = 0]]
    /\ UNCHANGED <<drivers, aPhase, hd, buf, cls_floats, cls_ints, cls_phases, touched>>

\* __init__: self._floats.clear()
Init_ClearFloats(t) ==
    /\ rep[t].pc = "clear_floats"
    /\ cls_floats' = <<>>
    /\ rep' = [rep EXCEPT ![t].pc = "clear_ints"]
    /\ UNCHANGED <<drivers, aPhase, hd, buf, cls_ints, cls_phases, touched>>

\* __init__: self._ints.clear()
Init_ClearInts(t) ==
    /\ rep[t].pc = "clear_ints"
    /\ cls_ints' = <<>>
    /\ rep' = [rep EXCEPT ![t].pc = "clear_phases"]
    /\ UNCHANGED <<drivers, aPhase, hd, buf, cls_floats, cls_phases, touched>>

\* __init__: self._phases.clear()
Init_ClearPhases(t) ==
    /\ rep[t].pc = "clear_phases"
    /\ cls_phases' = <<>>
    /\ rep' = [rep EXCEPT ![t].pc = "prepare"]
    /\ UNCHANGED <<drivers, aPhase, hd, buf, cls_floats, cls_ints, touched>>

\* __init__: the per-instance resets, rt = get_report_type(),
\* get_channel_count(), ba = get_content(), offset = 0
Init_Prepare(t) ==
    /\ rep[t].pc = "prepare"
    /\ LET r0 == [rep[t] EXCEPT !.content_set = FALSE, !.content = <<>>,
                                !.dec_set = FALSE, !.c_decimals = <<>>,
                                !.dbg_set = FALSE, !.dbg_str = <<>>,
                                !.log_set = FALSE, !.log_str = <<>>]
           rt == get_report_type(buf[t])
           cc == get_channel_count(r0, buf[t])
           r1 == [r0 EXCEPT !.rt = rt, !.channelCount = cc.val]
           c  == get_content(r1, buf[t])
       IN  rep' = [rep EXCEPT ![t] =
                     IF rt = "ValueError"
                       THEN [r0 EXCEPT !.pc = "raised", !.exc = "ValueError"]
                     ELSE IF c.exc # ""
                       THEN [WithContent(r1, buf[t]) EXCEPT !.pc = "raised", !.exc = c.exc]
                     ELSE [WithContent(r1, buf[t]) EXCEPT !.pc = "loop", !.i = 0]]
    /\ UNCHANGED <<drivers, aPhase, hd, buf, cls_floats, cls_ints, cls_phases, touched>>

\* __init__: one iteration of the decoding loop of the report's kind
Init_Append(t) ==
    /\ rep[t].pc = "loop"
    /\ rep[t].rt \in {"RT_PHASE", "RT_DOUBLE", "RT_INT32"}
    /\ rep[t].i < rep[t].channelCount
    /\ cls_floats' = IF rep[t].rt = "RT_DOUBLE"
                       THEN Append(cls_floats, DecodeDouble(rep[t].content, rep[t].i))
                       ELSE cls_floats
    /\ cls_phases' = IF rep[t].rt = "RT_PHASE"
                       THEN Append(cls_phases, DecodePhase(rep[t].content, rep[t].i))
                       ELSE cls_phases
    /\ cls_ints' = IF rep[t].rt = "RT_INT32"
                     THEN Append(cls_ints, DecodeInt(rep[t].content, rep[t].i))
                     ELSE cls_ints
    /\ rep' = [rep EXCEPT ![t].i = @ + 1]
    /\ UNCHANGED <<drivers, aPhase, hd, buf, touched>>

\* __init__ returns: the loops are over
Init_Return(t) ==
    /\ rep[t].pc = "loop"
    /\ \/ rep[t].rt \notin {"RT_PHASE", "RT_DOUBLE", "RT_INT32"}
       \/ rep[t].i >= rep[t].channelCount
    /\ rep' = [rep EXCEPT ![t].pc = "done"]
    /\ UNCHANGED <<drivers, aPhase, hd, buf, cls_floats, cls_ints, cls_phases, touched>>

Constructor(t) ==
    \/ Init_ErrCode(t)
    \/ Init_ClearFloats(t)
    \/ Init_ClearInts(t)
    \/ Init_ClearPhases(t)
    \/ Init_Prepare(t)
    \/ Init_Append(t)
    \/ Init_Return(t)

\* a call of report.to_log_str()
CallToLogStr(t) ==
    /\ rep[t].pc = "done"
    /\ LET res == to_log_str(rep[t], buf[t], cls_floats, cls_ints, cls_phases)
       IN  /\ rep' = [rep EXCEPT ![t] = res.r]
           /\ cls_phases' = res.phases
    /\ UNCHANGED <<drivers, aPhase, hd, buf, cls_floats, cls_ints, touched>>

\* a call of report.to_dbg_str()
CallToDbgStr(t) ==
    /\ rep[t].pc = "done"
    /\ LET res == to_dbg_str(rep[t], buf[t], cls_floats, cls_ints, cls_phases)
       IN  rep' = [rep EXCEPT ![t] = res.r]
    /\ UNCHANGED <<drivers, aPhase, hd, buf, cls_floats, cls_ints, cls_phases, touched>>

\* a call of report.get_channel_count()
CallGetChannelCount(t) ==
    /\ rep[t].pc = "done"
    /\ LET cc == get_channel_count(rep[t], buf[t])
       IN  rep' = [rep EXCEPT ![t].channelCount = IF cc.exc = "" THEN cc.val ELSE @]
    /\ UNCHANGED <<drivers, aPhase, hd, buf, cls_floats, cls_ints, cls_phases, touched>>

\* a call of report.get_decimals()
CallGetDecimals(t) ==
    /\ rep[t].pc = "done"
    /\ rep' = [rep EXCEPT ![t] = WithDecimals(rep[t], buf[t])]
    /\ UNCHANGED <<drivers, aPhase, hd, buf, cls_floats, cls_ints, cls_phases, touched>>

\* a call of report.get_timestamp()
CallGetTimestamp(t) ==
    /\ rep[t].pc = "done"
    /\ "get_timestamp" \notin rep[t].asked
    /\ rep' = [rep EXCEPT ![t].asked = @ \cup {"get_timestamp"},
                          ![t].timestamp = get_timestamp(buf[t])]
    /\ UNCHANGED <<drivers, aPhase, hd, buf, cls_floats, cls_ints, cls_phases, touched>>

\* a call of report.is_timestamp()
CallIsTimestamp(t) ==
    /\ rep[t].pc = "done"
    /\ "is_timestamp" \notin rep[t].asked
    /\ rep' = [rep EXCEPT ![t].asked = @ \cup {"is_timestamp"},
                          ![t].is_ts = is_timestamp(buf[t])]
    /\ UNCHANGED <<drivers, aPhase, hd, buf, cls_floats, cls_ints, cls_phases, touched>>

\* values the owner of the struct writes into it after the decode
OverwriteValues(fld) ==
    CASE fld = "ReportType" -> {0, 3, 9}
      [] fld = "ErrCode" -> {2, 8}
      [] fld = "Header" -> {28693, 4660}
      [] fld = "Len" -> {0, 8, 512}
      [] fld = "DeviceMs" -> {-1, 99}

\* the owner of the struct overwrites one of its scalar fields
Overwrite(t, fld, v) ==
    /\ rep[t].pc = "done"
    /\ touched[t] < MaxOverwrites
    /\ buf' = [buf EXCEPT ![t] = [@ EXCEPT ![fld] = v]]
    /\ touched' = [touched EXCEPT ![t] = @ + 1]
    /\ UNCHANGED <<drivers, aPhase, hd, rep, cls_floats, cls_ints, cls_phases>>

\* the owner of the struct overwrites content byte j (0-based)
OverwriteContent(t, j, v) ==
    /\ rep[t].pc = "done"
    /\ touched[t] < MaxOverwrites
    /\ buf' = [buf EXCEPT ![t].Content[j + 1] = v]
    /\ touched' = [touched EXCEPT ![t] = @ + 1]
    /\ UNCHANGED <<drivers, aPhase, hd, rep, cls_floats, cls_ints, cls_phases>>

(***************************************************************************)
(* Specifications                                                          *)
(***************************************************************************)
Init ==
    /\ buf = [t \in Threads |-> ZeroFrame]
    /\ rep = [t \in Threads |-> NoReport]
    /\ cls_floats = <<>>
    /\ cls_ints = <<>>
    /\ cls_phases = <<>>
    /\ touched = [t \in Threads |-> 0]
    /\ DriversIdle
    /\ aPhase = NoPhase
    /\ hd = NoHeader

AllQuiet == \A u \in Threads : Quiet(u)

\* Sequential callers: a report is decoded, and its strings are asked for,
\* only while no other constructor is running
Next ==
    \E t \in Threads :
        \/ AllQuiet /\ \E f \in FramesOf(t) : GetReportStruct(t, f)
        \/ Constructor(t)
        \/ AllQuiet /\ CallToLogStr(t)
        \/ AllQuiet /\ CallToDbgStr(t)

Spec == Init /\ [][Next]_vars

\* Interleaved callers: two threads decode their own frames at the same
\* time; a thread may be preempted between any two steps of its constructor
ConcFrames(t) == { Frame(tag, 1, 12869, len, 7, 2 - t) : tag \in {3, 4, 5}, len \in {0, 16, 32} }

NextConc ==
    \E t \in Threads :
        \/ \E f \in ConcFrames(t) : GetReportStruct(t, f)
        \/ Constructor(t)

SpecConc == Init /\ [][NextConc]_vars

\* One caller that keeps using its struct after the report has been decoded
ReuseFrames == { Frame(tag, 1, 12869, len, 7, 1) : tag \in 0..5, len \in {0, 16} }

NextReuse ==
    \/ \E f \in ReuseFrames : GetReportStruct(1, f)
    \/ Constructor(1)
    \/ \E fld \in {"ReportType", "ErrCode", "Header", "Len", "DeviceMs"} :
          \E v \in OverwriteValues(fld) : Overwrite(1, fld, v)
    \/ \E j \in {0, KK_REPORT_INDEX_DECIMALS} : \E v \in {9, 200} : OverwriteContent(1, j, v)
    \/ CallToLogStr(1)
    \/ CallToDbgStr(1)
    \/ CallGetChannelCount(1)
    \/ CallGetDecimals(1)

SpecReuse == Init /\ [][NextReuse]_vars

\* One caller and one report, with its strings and its timestamp asked for:
\* Message frames of every text header, of the two timestamp headers and of
\* plain headers, and Phase frames whose High has its top bit set
MsgHeaders == TextHeaders \cup {28672, 28688, 28693, 28694, 32752}

MsgLens == {0, 2, 3, 4, 5}

SingleFrames ==
    { Frame(2, 1, hdr, len, 7, seed) : hdr \in MsgHeaders, len \in MsgLens, seed \in 2..MaxSeed }
    \cup { Frame(3, 1, 12869, len, 7, seed) : len \in {16, 48}, seed \in {-1, 1} }

NextSingle ==
    \/ \E f \in SingleFrames : GetReportStruct(1, f)
    \/ Constructor(1)
    \/ CallToLogStr(1)
    \/ CallToDbgStr(1)
    \/ CallGetTimestamp(1)
    \/ CallIsTimestamp(1)

SpecSingle == Init /\ [][NextSingle]_vars

(***************************************************************************)
(* Phase objects on their own                                              *)
(***************************************************************************)
\* the arguments a Phase is built from: Phase(aHigh, aLow) or from_float(aFloat)
PhaseArgs ==
    { [NoPhase EXCEPT !.pc = "args", !.ctor = "init", !.aHigh = h, !.aLow = l] :
         h \in -MaxHigh..MaxHigh, l \in -MaxLowQ..MaxLowQ }
    \cup
    { [NoPhase EXCEPT !.pc = "args", !.ctor = "from_float", !.aFloat = v] :
         v \in -MaxFloatQ..MaxFloatQ }

\* Phase(aHigh, aLow)
Phase_init ==
    /\ aPhase.pc = "args" /\ aPhase.ctor = "init"
    /\ aPhase' = [aPhase EXCEPT !.pc = "obj", !.High = aPhase.aHigh, !.Low = aPhase.aLow]
    /\ UNCHANGED <<drivers, buf, rep, cls_floats, cls_ints, cls_phases, touched, hd>>

\* Phase.from_float(aFloat)
Phase_from_float ==
    /\ aPhase.pc = "args" /\ aPhase.ctor = "from_float"
    /\ aPhase' = [aPhase EXCEPT !.pc = "obj", !.High = from_float(aPhase.aFloat).High,
                                     !.Low = from_float(aPhase.aFloat).Low]
    /\ UNCHANGED <<drivers, buf, rep, cls_floats, cls_ints, cls_phases, touched, hd>>

\* aPhase.normalize()
Phase_normalize ==
    /\ aPhase.pc = "obj"
    /\ aPhase.calls < MaxCalls
    /\ LET n == NormalizeHL(aPhase.High, aPhase.Low)
       IN  aPhase' = [aPhase EXCEPT !.High = n[1], !.Low = n[2], !.calls = @ + 1]
    /\ UNCHANGED <<drivers, buf, rep, cls_floats, cls_ints, cls_phases, touched, hd>>

\* aPhase.to_float()
Phase_to_float ==
    /\ aPhase.pc = "obj"
    /\ aPhase' = [aPhase EXCEPT !.flt_set = TRUE, !.flt = to_float(aPhase.High, aPhase.Low)]
    /\ UNCHANGED <<drivers, buf, rep, cls_floats, cls_ints, cls_phases, touched, hd>>

InitPhase ==
    /\ buf = [t \in Threads |-> ZeroFrame]
    /\ rep = [t \in Threads |-> NoReport]
    /\ cls_floats = <<>>
    /\ cls_ints = <<>>
    /\ cls_phases = <<>>
    /\ touched = [t \in Threads |-> 0]
    /\ DriversIdle
    /\ aPhase \in PhaseArgs
    /\ hd = NoHeader

NextPhase ==
    \/ Phase_init
    \/ Phase_from_float
    \/ Phase_normalize
    \/ Phase_to_float

SpecPhase == InitPhase /\ [][NextPhase]_vars

(***************************************************************************)
(* Raw headers on their own                                                *)
(***************************************************************************)
\* every value of the four fields, with bits 0-3 all clear or all set
HeaderInputs ==
    { top * 4096 + i * 256 + p * 64 + s * 16 + low :
         top \in 0..MaxHeaderTop, i \in 0..15, p \in 0..3, s \in 0..3, low \in {0, 15} }

Call_header_to_interval_ms ==
    /\ hd.pc = "header" /\ "interval" \notin hd.called
    /\ hd' = [hd EXCEPT !.called = @ \cup {"interval"},
                        !.interval = header_to_interval_ms(hd.aHeader)]
    /\ UNCHANGED <<drivers, buf, rep, cls_floats, cls_ints, cls_phases, touched, aPhase>>

Call_header_to_PPI_mode ==
    /\ hd.pc = "header" /\ "ppi" \notin hd.called
    /\ hd' = [hd EXCEPT !.called = @ \cup {"ppi"}, !.ppi = header_to_PPI_mode(hd.aHeader)]
    /\ UNCHANGED <<drivers, buf, rep, cls_floats, cls_ints, cls_phases, touched, aPhase>>

Call_header_to_report_mode ==
    /\ hd.pc = "header" /\ "mode" \notin hd.called
    /\ hd' = [hd EXCEPT !.called = @ \cup {"mode"}, !.mode = header_to_report_mode(hd.aHeader)]
    /\ UNCHANGED <<drivers, buf, rep, cls_floats, cls_ints, cls_phases, touched, aPhase>>

Call_header_to_scrambler_mode ==
    /\ hd.pc = "header" /\ "scrambler" \notin hd.called
    /\ hd' = [hd EXCEPT !.called = @ \cup {"scrambler"},
                        !.scrambler = header_to_scrambler_mode(hd.aHeader)]
    /\ UNCHANGED <<drivers, buf, rep, cls_floats, cls_ints, cls_phases, touched, aPhase>>

InitHeader ==
    /\ buf = [t \in Threads |-> ZeroFrame]
    /\ rep = [t \in Threads |-> NoReport]
    /\ cls_floats = <<>>
    /\ cls_ints = <<>>
    /\ cls_phases = <<>>
    /\ touched = [t \in Threads |-> 0]
    /\ DriversIdle
    /\ aPhase = NoPhase
    /\ hd \in { [NoHeader EXCEPT !.pc = "header", !.aHeader = h] : h \in HeaderInputs }

NextHeader ==
    \/ Call_header_to_interval_ms
    \/ Call_header_to_PPI_mode
    \/ Call_header_to_report_mode
    \/ Call_header_to_scrambler_mode

SpecHeader == InitHeader /\ [][NextHeader]_vars

(***************************************************************************)
(* What a report shows, and what its frame holds                           *)
(***************************************************************************)
\* the channel values reachable from report t and its two string forms
Values(t) ==
    [channel_count |-> rep[t].channelCount,
     floats |-> cls_floats,
     ints |-> cls_ints,
     phases |-> cls_phases,
     log |-> to_log_str(rep[t], buf[t], cls_floats, cls_ints, cls_phases).ret,
     dbg |-> to_dbg_str(rep[t], buf[t], cls_floats, cls_ints, cls_phases).ret]

\* what the getters of report t return
Getters(t) ==
    [report_type |-> get_report_type(buf[t]),
     header |-> get_header(buf[t]),
     device_ms |-> get_device_ms(buf[t]),
     channel_count |-> get_channel_count(rep[t], buf[t]),
     decimals |-> get_decimals(rep[t], buf[t])]

\* the list of report t that belongs to its kind
HeldValues(t) ==
    CASE rep[t].rt = "RT_PHASE" -> cls_phases
      [] rep[t].rt = "RT_DOUBLE" -> cls_floats
      [] rep[t].rt = "RT_INT32" -> cls_ints
      [] OTHER -> <<>>

KnownErrCode(f) == C_Report_Error_Code(CByte(f.ErrCode)) # "ValueError"

KnownKind(f) == CByte(f.ReportType) \in 0..5

MeasurementKind(f) == CByte(f.ReportType) \in {3, 4, 5}

LenInRange(f) == f.Len >= 0 /\ f.Len <= KK_REPORT_CONTENT_SIZE

\* the channel count the frame calls for: len / element size, 0 if inexact
FrameChannelCount(f) ==
    LET size == ElementSize(KK_ReportType(CByte(f.ReportType)))
    IN  IF size > 0 /\ f.Len % size = 0 THEN f.Len \div size ELSE 0

\* the channel values the frame calls for, read from its first len bytes
FrameValues(f) ==
    LET rt == KK_ReportType(CByte(f.ReportType))
    IN  [i \in 1..FrameChannelCount(f) |->
            CASE rt = "RT_PHASE" -> DecodePhase(f.Content, i - 1)
              [] rt = "RT_DOUBLE" -> DecodeDouble(f.Content, i - 1)
              [] rt = "RT_INT32" -> DecodeInt(f.Content, i - 1)]

Finished(t) == rep[t].pc \in {"done", "raised"}

(***************************************************************************)
(* Properties                                                              *)
(***************************************************************************)

\* C1: a decoded report is independent of every later decode: while the
\* constructor of another report runs (sequential callers), the channel
\* values, the channel count and the two string forms of a report that has
\* already been returned stay what they were.
C1_IndependentOfLaterDecode ==
    [][\A t \in Threads :
          (rep[t].pc = "done" /\ \E u \in Threads \ {t} : ~Quiet(u))
             => Values(t)' = Values(t)]_vars

\* C2: under any interleaving of two constructors, a constructor returns a
\* report that holds exactly the channel values of its own frame, in order,
\* as many as its own channel count.
C2_OwnValuesUnderInterleaving ==
    [][\A t \in Threads :
          (rep[t].pc = "loop" /\ rep'[t].pc = "done")
             => /\ rep'[t].channelCount = FrameChannelCount(buf[t])
                /\ HeldValues(t)' = FrameValues(buf[t])]_vars

\* C3: overwriting a field of the source struct after the decode has
\* returned changes nothing that the report shows: report type, header,
\* device-ms, channel count, decimals, decoded values and both strings.
C3_IndependentOfSourceBuffer ==
    [][\A t \in Threads :
          (rep[t].pc = "done" /\ buf'[t] # buf[t])
             => /\ Getters(t)' = Getters(t)
                /\ Values(t)' = Values(t)]_vars

\* C4: for every report-type byte outside 0..5 (the error code being one of
\* the table, so that the type is looked at all) the decode completes
\* without raising and yields a report of kind None: device-ms unavailable,
\* both strings none.
C4_UnknownTagYieldsNone ==
    \A t \in Threads :
        (Finished(t) /\ touched[t] = 0 /\ ~KnownKind(buf[t]) /\ KnownErrCode(buf[t]))
           => /\ rep[t].pc = "done"
              /\ get_report_type(buf[t]) = "RT_NONE"
              /\ get_device_ms(buf[t]) = Ok(-1)
              /\ ~to_log_str(rep[t], buf[t], cls_floats, cls_ints, cls_phases).ret.set
              /\ ~to_dbg_str(rep[t], buf[t], cls_floats, cls_ints, cls_phases).ret.set

\* the codes the fixed table names
TableCodes == {0, 1, 3, 4, 6, 7, 8, 9, 10, 11, 13, 14, 15}

\* C5: the error-code mapping is total: for every error-code byte and every
\* known report kind the decode completes without raising, and a code that
\* the table does not name is given the generic-error category KK_ERR.
C5_ErrorMappingTotal ==
    \A t \in Threads :
        (Finished(t) /\ touched[t] = 0 /\ KnownKind(buf[t]) /\ LenInRange(buf[t]))
           => /\ rep[t].pc = "done"
              /\ (buf[t].ErrCode \notin TableCodes => rep[t].error_code = "KK_ERR")

\* the constructor of report t has got past the error-code chain
Mapped(t) == rep[t].pc \notin {"idle", "errcode"} /\ rep[t].exc = ""

\* C6 as stated: device code 0 maps to no-error, device code 1 to generic-error
C6_Original ==
    \A t \in Threads :
        (Mapped(t) /\ touched[t] = 0)
           => /\ (buf[t].ErrCode = 0 => rep[t].error_code = "KK_NO_ERR")
              /\ (buf[t].ErrCode = 1 => rep[t].error_code = "KK_ERR")

\* C6 (amended): device code 0 (CKK_DLL_Error) maps to the generic-error
\* category KK_ERR and device code 1 (CKK_DLL_NoError) maps to the no-error
\* category KK_NO_ERR; get_error_code() of an Error report returns it.
C6_ZeroIsErrorOneIsNoError ==
    \A t \in Threads :
        (Mapped(t) /\ touched[t] = 0)
           => /\ (buf[t].ErrCode = 0 => rep[t].error_code = "KK_ERR")
              /\ (buf[t].ErrCode = 1 => rep[t].error_code = "KK_NO_ERR")
              /\ (rep[t].pc = "done" /\ buf[t].ErrCode \in {0, 1} /\ rep[t].rt = "RT_ERROR"
                    => get_error_code(rep[t], buf[t]) = Ok(rep[t].error_code))

\* an Error report of code 0 and a report of code 1 have both been decoded
C6_Witness ==
    /\ rep[1].pc = "done" /\ rep[1].rt = "RT_ERROR" /\ buf[1].ErrCode = 0
    /\ get_error_code(rep[1], buf[1]) = Ok("KK_ERR")
    /\ rep[2].pc = "done" /\ buf[2].ErrCode = 1 /\ rep[2].error_code = "KK_NO_ERR"

\* the category that the table gives a named device code
TableCategory(code) ==
    CASE code = 3 -> "KK_ERR_WRITE"
      [] code = 4 -> "KK_ERR_SERVER_DOWN"
      [] code = 6 -> "KK_ERR_BUFFER_TOO_SMALL"
      [] code = 8 -> "KK_ERR_BUFFER_OVERFLOW"
      [] code = 7 -> "KK_ERR_DEVICE_NOT_CONNECTED"
      [] code = 9 -> "KK_HARDWARE_FAULT"
      [] code = 10 -> "KK_PARAM_ERROR"
      [] code = 11 -> "KK_CMD_IGNORED"
      [] code = 13 -> "KK_ERR_RECONNECTED"
      [] code = 14 -> "KK_ERR_RECONNECTED"
      [] code = 15 -> "KK_DLL_EXCEPTION"

\* C7: every device code that the table names maps to the category of the
\* same meaning, and none of them to the generic-error category.
C7_NamedCodesKeepMeaning ==
    \A t \in Threads :
        (Mapped(t) /\ touched[t] = 0 /\ buf[t].ErrCode \in TableCodes \ {0, 1})
           => /\ rep[t].error_code = TableCategory(buf[t].ErrCode)
              /\ rep[t].error_code # "KK_ERR"

\* C8: for a Phase, Double or Int32 frame with len in 0..capacity the
\* constructor does not raise and returns with channel count len / size and
\* exactly that many values, in order, from the first len bytes when len is
\* a multiple of the element size, and with channel count 0 and no value
\* when it is not.
C8_ChannelCountAndValues ==
    [][\A t \in Threads :
          (~Finished(t) /\ Finished(t)' /\ MeasurementKind(buf[t]) /\ LenInRange(buf[t]))
             => /\ rep'[t].pc = "done"
                /\ rep'[t].channelCount = FrameChannelCount(buf[t])
                /\ HeldValues(t)' = FrameValues(buf[t])
                /\ Len(HeldValues(t)') = rep'[t].channelCount]_vars

\* C9: a frame whose len is negative or larger than the content capacity is
\* rejected or clamped: the decode does not raise and the channel count is
\* neither negative nor larger than capacity / element size.
C9_LenOutOfRangeClamped ==
    \A t \in Threads :
        (Finished(t) /\ touched[t] = 0 /\ MeasurementKind(buf[t]) /\ ~LenInRange(buf[t]))
           => /\ rep[t].pc = "done"
              /\ rep[t].channelCount >= 0
              /\ rep[t].channelCount <= KK_REPORT_CONTENT_SIZE \div ElementSize(rep[t].rt)

\* C10: zero-length content is never surfaced as an exception: for a frame
\* of every known kind with len = 0 the decode, to_log_str and to_dbg_str
\* complete without raising.
C10_ZeroLengthNeverRaises ==
    \A t \in Threads :
        (Finished(t) /\ touched[t] = 0 /\ buf[t].Len = 0 /\ CByte(buf[t].ReportType) \in 1..5)
           => /\ rep[t].pc = "done"
              /\ to_log_str(rep[t], buf[t], cls_floats, cls_ints, cls_phases).ret.exc = ""
              /\ to_dbg_str(rep[t], buf[t], cls_floats, cls_ints, cls_phases).ret.exc = ""

\* C11: Phase.normalize is idempotent: a call of normalize on a Phase that
\* has already been normalized leaves (High, Low) as they are.
C11_NormalizeIdempotent ==
    [][(aPhase.pc = "obj" /\ aPhase.calls >= 1 /\ aPhase'.calls = aPhase.calls + 1)
          => (aPhase'.High = aPhase.High /\ aPhase'.Low = aPhase.Low)]_vars

\* C12: after one call of Phase.normalize, Low lies in the canonical range
\* for the sign of High + Low: -1 < Low <= 0 when High + Low is negative,
\* 0 <= Low < 1 otherwise (Low in quarters: -4 < Low <= 0, 0 <= Low < 4).
C12_LowCanonicalAfterNormalize ==
    (aPhase.pc = "obj" /\ aPhase.calls = 1)
       => IF to_float(aPhase.High, aPhase.Low) < 0
            THEN -4 < aPhase.Low /\ aPhase.Low <= 0
            ELSE 0 <= aPhase.Low /\ aPhase.Low < 4

\* C13: Phase.normalize preserves the represented value: High + Low after a
\* call equals High + Low before it, exactly, whichever of the four branches
\* of the sign analysis the call takes.
C13_NormalizePreservesValue ==
    [][(aPhase.pc = "obj" /\ aPhase'.calls = aPhase.calls + 1)
          => 4 * aPhase'.High + aPhase'.Low = 4 * aPhase.High + aPhase.Low]_vars

\* normalize has moved a carry from a positive Low into a negative High
C13_Witness ==
    /\ aPhase.pc = "obj" /\ aPhase.ctor = "init" /\ aPhase.calls = 1
    /\ aPhase.aLow > 4 /\ 4 * aPhase.aHigh + aPhase.aLow < 0
    /\ aPhase.High # aPhase.aHigh
    /\ 4 * aPhase.High + aPhase.Low = 4 * aPhase.aHigh + aPhase.aLow

\* C14: Phase.from_float(v) has High = v truncated toward zero and
\* Low = v - High; to_float() of it gives v back; and it is canonical
\* already: normalize leaves (High, Low) as from_float made them.
C14_FromFloatRoundTrip ==
    (aPhase.pc = "obj" /\ aPhase.ctor = "from_float")
       => /\ aPhase.High = (IF aPhase.aFloat >= 0 THEN aPhase.aFloat \div 4 ELSE -((-aPhase.aFloat) \div 4))
          /\ aPhase.Low = aPhase.aFloat - 4 * aPhase.High
          /\ (aPhase.flt_set => aPhase.flt = aPhase.aFloat)

\* a negative value with a fraction went through from_float, normalize and to_float
C14_Witness ==
    /\ aPhase.pc = "obj" /\ aPhase.ctor = "from_float"
    /\ aPhase.aFloat < 0 /\ aPhase.aFloat % 4 # 0
    /\ aPhase.calls >= 1 /\ aPhase.flt_set /\ aPhase.flt = aPhase.aFloat

\* C15: in a Phase frame the 8 bytes of a channel's high part are read as a
\* signed 64-bit integer: when the top bit of the most significant byte is
\* set, the High that the constructor appends is negative (value - 2^64).
C15_HighIsSigned ==
    [][\A t \in Threads :
          (rep[t].pc = "loop" /\ rep'[t].pc = "done" /\ rep[t].rt = "RT_PHASE")
             => \A i \in 1..Len(cls_phases') :
                   rep[t].content[16 * (i - 1) + 8] >= 128
                      => cls_phases'[i].High.w = 0 /\ cls_phases'[i].High.o < 0]_vars

\* content bytes b0 b1 (b2 b3) as b0 + 256*b1 (+ 65536*b2 + 16777216*b3)
ContentLowFirst(f) ==
    IF f.Len = 2 THEN Wide(0, f.Content[1] + 256 * f.Content[2])
    ELSE Wide(f.Content[3] + 256 * f.Content[4], f.Content[1] + 256 * f.Content[2])

\* content bytes b0 b1 (b2 b3) as 256*b0 + b1 (16777216*b0 + 65536*b1 + 256*b2 + b3)
ContentHighFirst(f) ==
    IF f.Len = 2 THEN Wide(0, 256 * f.Content[1] + f.Content[2])
    ELSE Wide(256 * f.Content[1] + f.Content[2], 256 * f.Content[3] + f.Content[4])

\* a Message header that is neither a text header nor a timestamp header
PlainHeader(f) ==
    f.Header \notin TextHeaders /\ f.Header < 32752 /\ f.Header \notin {28693, 28694}

\* the last n pieces of a string
StringTail(str, n) == IF Len(str) < n THEN <<>> ELSE SubSeq(str, Len(str) - n + 1, Len(str))

\* the hexadecimal rendering of value w for a content of len bytes
HexRendering(w, len) == <<Lit("0x"), IF len = 2 THEN Hex(w.lo, 4) ELSE HexWide(w)>>

\* report t is a decoded Message report whose struct is as it was decoded
MessageDone(t) ==
    rep[t].pc = "done" /\ touched[t] = 0 /\ rep[t].rt = "RT_MESSAGE"

\* C16 as stated: the 2-byte or 4-byte content of a Message frame is used as
\* a little-endian unsigned integer, in the hexadecimal rendering of both
\* strings and in the timestamp.
C16_Original ==
    \A t \in Threads :
        (MessageDone(t) /\ buf[t].Len \in {2, 4})
           => LET f == buf[t]
                  n == ContentLowFirst(f)
              IN  /\ (PlainHeader(f) /\ rep[t].log_set
                         => StringTail(rep[t].log_str, 2) = HexRendering(n, f.Len))
                  /\ (PlainHeader(f) /\ rep[t].dbg_set
                         => StringTail(rep[t].dbg_str, 2) = HexRendering(n, f.Len))
                  /\ (f.Len = 4 /\ "get_timestamp" \in rep[t].asked
                         => /\ (f.Header = 28694 => rep[t].timestamp = n)
                            /\ (f.Header = 28693 => rep[t].timestamp = Times10(n)))

\* C16 (amended): the 2-byte or 4-byte content of a Message frame is used as
\* a big-endian (high byte first) unsigned integer: for content bytes b0 b1
\* (b2 b3) the value in the hexadecimal rendering of both strings and in the
\* timestamp is 256*b0 + b1 (16777216*b0 + 65536*b1 + 256*b2 + b3).
C16_HighByteFirst ==
    \A t \in Threads :
        (MessageDone(t) /\ buf[t].Len \in {2, 4})
           => LET f == buf[t]
                  n == ContentHighFirst(f)
              IN  /\ (PlainHeader(f) /\ rep[t].log_set
                         => StringTail(rep[t].log_str, 2) = HexRendering(n, f.Len))
                  /\ (PlainHeader(f) /\ rep[t].dbg_set
                         => StringTail(rep[t].dbg_str, 2) = HexRendering(n, f.Len))
                  /\ (f.Len = 4 /\ "get_timestamp" \in rep[t].asked
                         => /\ (f.Header = 28694 => rep[t].timestamp = n)
                            /\ (f.Header = 28693 => rep[t].timestamp = Times10(n)))

\* both strings of a plain 4-byte Message whose bytes do not read the same
\* in both orders have been built
C16_Witness ==
    /\ MessageDone(1) /\ buf[1].Len = 4 /\ PlainHeader(buf[1])
    /\ buf[1].Content[1] # buf[1].Content[4]
    /\ rep[1].log_set /\ rep[1].dbg_set
    /\ StringTail(rep[1].log_str, 2) = HexRendering(ContentHighFirst(buf[1]), 4)

\* C17: for a timestamp frame with 4-byte content of value n (high byte
\* first) get_timestamp, and the number that to_log_str writes, is 10*n for
\* header 0x7015 and n for header 0x7016; for every other header
\* get_timestamp is -1; so get_timestamp() # -1 exactly when is_timestamp().
C17_TimestampScaling ==
    \A t \in Threads :
        (rep[t].pc = "done" /\ touched[t] = 0)
           => LET f == buf[t]
                  n == ContentHighFirst(f)
                  ts == IF f.Header = 28693 THEN Times10(n) ELSE n
                  four == rep[t].rt = "RT_MESSAGE" /\ f.Len = 4 /\ f.Header \in {28693, 28694}
              IN  /\ (four /\ "get_timestamp" \in rep[t].asked => rep[t].timestamp = ts)
                  /\ (four /\ rep[t].log_set
                         => rep[t].log_str = <<Hex(f.Header, 4), Lit("; "), DecWide(ts)>>)
                  /\ ("get_timestamp" \in rep[t].asked /\ f.Header \notin {28693, 28694}
                         => rep[t].timestamp = Wide(0, -1))
                  /\ (rep[t].asked = {"get_timestamp", "is_timestamp"}
                         => (rep[t].timestamp # Wide(0, -1) <=> rep[t].is_ts))

\* a 4-byte timestamp of header 0x7015 has been asked for and written
C17_Witness ==
    /\ MessageDone(1) /\ buf[1].Len = 4 /\ buf[1].Header = 28693
    /\ rep[1].asked = {"get_timestamp", "is_timestamp"} /\ rep[1].is_ts
    /\ rep[1].log_set
    /\ rep[1].timestamp = Times10(ContentHighFirst(buf[1]))
    /\ rep[1].timestamp # ContentHighFirst(buf[1])

\* the string ends with a hexadecimal-integer rendering
UsesHexInteger(str) == Len(str) >= 2 /\ str[Len(str) - 1] = Lit("0x")

\* C18: both strings apply the same text/hex interpretation to a Message
\* frame: with a text header (0x7001, 0x7022, 0x7030, 0x7902, 0x7F23, 0x7F40
\* or >= 0x7FF0) to_log_str and to_dbg_str both end with the content as text,
\* whatever its length; the hexadecimal-integer rendering is used, by either
\* of them, only when the length is 2 or 4 and the header is no text header.
C18_SameTextHexInterpretation ==
    \A t \in Threads :
        (/\ MessageDone(t) /\ buf[t].Len > 0
         /\ Utf8Valid(SubSeq(buf[t].Content, 1, buf[t].Len), 1)
         /\ rep[t].log_set /\ rep[t].dbg_set)
           => LET f == buf[t]
                  text == f.Header \in TextHeaders \/ f.Header >= 32752
                  content == <<Text(SubSeq(f.Content, 1, f.Len))>>
              IN  /\ text => /\ StringTail(rep[t].log_str, 1) = content
                             /\ StringTail(rep[t].dbg_str, 1) = content
                  /\ UsesHexInteger(rep[t].log_str) => (f.Len \in {2, 4} /\ ~text)
                  /\ UsesHexInteger(rep[t].dbg_str) => (f.Len \in {2, 4} /\ ~text)

\* C19 as stated: for every raw header below 0x7000 header_to_report_mode
\* returns bits 12-15 and never -1; for every header from 0x7000 on mode,
\* PPI and scrambler are -1 and the interval is 0.
C19_Original ==
    hd.pc = "header"
       => /\ (hd.aHeader < 28672 /\ "mode" \in hd.called
                 => hd.mode = hd.aHeader \div 4096 /\ hd.mode # -1)
          /\ (hd.aHeader >= 28672
                 => /\ ("mode" \in hd.called => hd.mode = -1)
                    /\ ("ppi" \in hd.called => hd.ppi = -1)
                    /\ ("scrambler" \in hd.called => hd.scrambler = -1)
                    /\ ("interval" \in hd.called => hd.interval = 0))

\* C19 (amended): header_to_report_mode returns bits 12-15 for every raw
\* header below 0x6000 and -1 for every header from 0x6000 on (a mode above
\* 5 is no report mode); for every header from 0x7000 on PPI and scrambler
\* are -1 and the interval is 0, while a header in 0x6000 .. 0x6FFF still
\* has its scrambler field decoded.
C19_ModeNotApplicableFrom6000 ==
    hd.pc = "header"
       => /\ (hd.aHeader < 24576 /\ "mode" \in hd.called
                 => hd.mode = hd.aHeader \div 4096 /\ hd.mode # -1)
          /\ (hd.aHeader >= 24576 /\ "mode" \in hd.called => hd.mode = -1)
          /\ (hd.aHeader >= 24576 /\ hd.aHeader < 28672 /\ "scrambler" \in hd.called
                 => hd.scrambler = (hd.aHeader \div 16) % 4)
          /\ (hd.aHeader >= 28672
                 => /\ ("ppi" \in hd.called => hd.ppi = -1)
                    /\ ("scrambler" \in hd.called => hd.scrambler = -1)
                    /\ ("interval" \in hd.called => hd.interval = 0))

\* the four functions have been applied to a header of mode 6
C19_Witness ==
    /\ hd.pc = "header" /\ hd.aHeader \div 4096 = 6
    /\ hd.called = {"interval", "ppi", "mode", "scrambler"}
    /\ hd.mode = -1 /\ hd.scrambler # -1

\* C20: for every raw header below 0x7000 the interval is the entry of the
\* millisecond table that bits 8-11 select, 0 for the codes 14 and 15; the
\* PPI mode is bits 6-7, code 2 being reported as -1; the scrambler mode is
\* bits 4-5; and every header that agrees on a field gets the same result
\* for it, whatever its other bits are.
C20_FieldsOfHeader ==
    (hd.pc = "header" /\ hd.aHeader < 28672)
       => LET i == (hd.aHeader \div 256) % 16
              p == (hd.aHeader \div 64) % 4
              s == (hd.aHeader \div 16) % 4
          IN  /\ "interval" \in hd.called
                    => hd.interval = (IF i <= 13 THEN _ms[i + 1] ELSE 0)
              /\ "ppi" \in hd.called
                    => hd.ppi = (IF p = 2 THEN -1 ELSE p)
              /\ "scrambler" \in hd.called
                    => hd.scrambler = s
              /\ hd.called = {"interval", "ppi", "mode", "scrambler"}
                    => \A h \in HeaderInputs :
                          h < 28672
                             => /\ ((h \div 256) % 16 = i => header_to_interval_ms(h) = hd.interval)
                                /\ ((h \div 64) % 4 = p => header_to_PPI_mode(h) = hd.ppi)
                                /\ ((h \div 16) % 4 = s => header_to_scrambler_mode(h) = hd.scrambler)

\* a header with interval code 14 and PPI code 2 has been decoded
C20_Witness ==
    /\ hd.pc = "header" /\ hd.aHeader < 28672
    /\ (hd.aHeader \div 256) % 16 = 14 /\ (hd.aHeader \div 64) % 4 = 2
    /\ hd.aHeader % 16 = 15
    /\ hd.called = {"interval", "ppi", "mode", "scrambler"}
    /\ hd.interval = 0 /\ hd.ppi = -1


(***************************************************************************)
(* Phase.to_str26, character by character                                  *)
(* A Python int of any size is its sign and its decimal digits, most       *)
(* significant first; Low is in quarters as before; a str is the sequence  *)
(* of its characters.                                                      *)
(***************************************************************************)
MinAsked == 6

MaxAsked == 12

\* exponents e for which High = 10^e and High = 10^e - 1 are tried
BigExps == {13, 14, 17, 18, 26}

RECURSIVE DigitsOf(_)
\* the decimal digits of n >= 0
DigitsOf(n) == IF n < 10 THEN <<n>> ELSE Append(DigitsOf(n \div 10), n % 10)

\* the Python int n
BigOfInt(n) == [neg |-> n < 0, digits |-> DigitsOf(IF n < 0 THEN -n ELSE n)]

BigIsZero(b) == b.digits = <<0>>

RECURSIVE IncMag(_)
\* digits of m + 1
IncMag(d) ==
    IF d = <<>> THEN <<1>>
    ELSE LET front == SubSeq(d, 1, Len(d) - 1)
             last == d[Len(d)]
         IN  IF last < 9 THEN Append(front, last + 1) ELSE Append(IncMag(front), 0)

RECURSIVE DecMagRaw(_)
DecMagRaw(d) ==
    LET front == SubSeq(d, 1, Len(d) - 1)
        last == d[Len(d)]
    IN  IF last > 0 THEN Append(front, last - 1) ELSE Append(DecMagRaw(front), 9)

\* digits of m - 1, for m > 0
DecMag(d) ==
    LET r == DecMagRaw(d)
    IN  IF Len(r) > 1 /\ r[1] = 0 THEN Tail(r) ELSE r

\* b + 1
BigInc(b) ==
    IF b.neg
      THEN LET m == DecMag(b.digits)
           IN  [neg |-> m # <<0>>, digits |-> m]
      ELSE [neg |-> FALSE, digits |-> IncMag(b.digits)]

\* b - 1
BigDec(b) ==
    IF b.neg THEN [neg |-> TRUE, digits |-> IncMag(b.digits)]
    ELSE IF BigIsZero(b) THEN [neg |-> TRUE, digits |-> <<1>>]
    ELSE [neg |-> FALSE, digits |-> DecMag(b.digits)]

RECURSIVE BigAdd(_, _)
\* b + c for an integer c
BigAdd(b, c) ==
    IF c = 0 THEN b
    ELSE IF c > 0 THEN BigAdd(BigInc(b), c - 1)
    ELSE BigAdd(BigDec(b), c + 1)

RECURSIVE MagValue(_)
MagValue(d) == IF d = <<>> THEN 0 ELSE 10 * MagValue(SubSeq(d, 1, Len(d) - 1)) + d[Len(d)]

\* an integer with the sign of 4 * b + low for every |low| < 4 * 10^8, and
\* equal to b when b has up to eight digits
BigProxy(b) ==
    LET m == IF Len(b.digits) <= 8 THEN MagValue(b.digits) ELSE 100000000
    IN  IF b.neg THEN -m ELSE m

\* self.normalize() on High = aHigh and Low = low / 4
NormalizeBig(aHigh, low) ==
    LET h == BigProxy(aHigh)
        n == NormalizeHL(h, low)
    IN  [High |-> BigAdd(aHigh, n[1] - h), Low |-> n[2]]

DigitChar(n) == <<"0", "1", "2", "3", "4", "5", "6", "7", "8", "9">>[n + 1]

\* str of a Python int
IntStr(b) ==
    (IF b.neg THEN <<"-">> ELSE <<>>) \o [i \in 1..Len(b.digits) |-> DigitChar(b.digits[i])]

\* f"{High:{width}d}": right-justified, never shortened
FormatD(b, width) ==
    LET str == IntStr(b)
    IN  IF Len(str) >= width THEN str ELSE [i \in 1..(width - Len(str)) |-> " "] \o str

\* locale.format_string("%.<decimals>f", low / 4) with decimal point sep
FormatF(low, decimals, sep) ==
    LET m == IF low < 0 THEN -low ELSE low
        hundredths == 25 * (m % 4)
    IN  (IF low < 0 THEN <<"-">> ELSE <<>>)
        \o IntStr(BigOfInt(m \div 4))
        \o <<sep>>
        \o [i \in 1..decimals |-> IF i = 1 THEN DigitChar(hundredths \div 10)
                                  ELSE IF i = 2 THEN DigitChar(hundredths % 10)
                                  ELSE "0"]

\* str.find: the index (from 0) of the first c in str, -1 if there is none
find(str, c) ==
    IF \E i \in 1..Len(str) : str[i] = c
      THEN (CHOOSE i \in 1..Len(str) : str[i] = c /\ \A j \in 1..(i - 1) : str[j] # c) - 1
      ELSE -1

\* str[k:]
SliceFrom(str, k) ==
    IF k >= 0 THEN SubSeq(str, k + 1, Len(str))
    ELSE SubSeq(str, Len(str) + k + 1, Len(str))

\* decimals must be in range 7 .. 11
ClampDecimals(decimals) ==
    IF decimals < 7 THEN 7 ELSE IF decimals > 11 THEN 11 ELSE decimals

\* to_str26 without its special case for High == 0 and Low < 0
SignFix_Never(result, aHigh, low, decimals) == result

\* special case: add '-', if High == 0, but Low < 0
SignFix(result, aHigh, low, decimals) ==
    IF BigIsZero(aHigh) /\ low < 0
      THEN [result EXCEPT ![23 - decimals + 1] = "-"]
      ELSE result

\* to_str26 without shortening
Cut26_Never(result) == result

\* shorten strings that are too long to 26 characters
Cut26(result) == IF Len(result) > 26 THEN SubSeq(result, 1, 26) ELSE result

\* Phase.to_str26(decimals) on High = aHigh and Low = low / 4: the string
\* returned and the fields of the Phase after the call
to_str26(aHigh, low, asked, sep) ==
    LET decimals == ClampDecimals(asked)
        n == NormalizeBig(aHigh, low)
        low_str == FormatF(n.Low, decimals, sep)
        decimal_part == SliceFrom(low_str, find(low_str, sep))
        high_str == FormatD(n.High, 25 - decimals)
        result == high_str \o decimal_part
    IN  [str |-> Cut26(SignFix(result, n.High, n.Low, decimals)),
         High |-> n.High, Low |-> n.Low]

\* the Phase objects and arguments of the to_str26 calls
Str26Highs ==
    { BigOfInt(h) : h \in -MaxHigh..MaxHigh }
    \cup { [neg |-> sg, digits |-> <<1>> \o [i \in 1..e |-> 0]] : sg \in BOOLEAN, e \in BigExps }
    \cup { [neg |-> sg, digits |-> [i \in 1..e |-> 9]] : sg \in BOOLEAN, e \in BigExps }

Str26Args ==
    { [NoStr26 EXCEPT !.pc = "args", !.aHigh = h, !.aLow = l, !.decimals = d, !.sep = c,
                      !.High = h, !.Low = l] :
        h \in Str26Highs, l \in -MaxLowQ..MaxLowQ, d \in MinAsked..MaxAsked, c \in {".", ","} }

\* s = aPhase.to_str26(decimals)
Call_to_str26 ==
    /\ s26.pc = "args"
    /\ LET r == to_str26(s26.High, s26.Low, s26.decimals, s26.sep)
       IN  s26' = [s26 EXCEPT !.pc = "done", !.High = r.High, !.Low = r.Low, !.result = r.str]
    /\ UNCHANGED <<buf, rep, cls_floats, cls_ints, cls_phases, touched, aPhase, hd, fc, cam, wm>>

\* everything but the drivers and the to_str26 call is idle
KKIdle ==
    /\ buf = [t \in Threads |-> ZeroFrame]
    /\ rep = [t \in Threads |-> NoReport]
    /\ cls_floats = <<>>
    /\ cls_ints = <<>>
    /\ cls_phases = <<>>
    /\ touched = [t \in Threads |-> 0]
    /\ aPhase = NoPhase
    /\ hd = NoHeader

InitStr26 ==
    /\ KKIdle
    /\ s26 \in Str26Args
    /\ fc = NoCounter /\ cam = NoCamera /\ wm = NoWavemeter

NextStr26 == Call_to_str26

SpecStr26 == InitStr26 /\ [][NextStr26]_vars

(***************************************************************************)
(* Claims on Phase.to_str26                                                *)
(***************************************************************************)
Str26Done == s26.pc = "done"

IsDigit(c) == c \in {"0", "1", "2", "3", "4", "5", "6", "7", "8", "9"}

\* the columns that str(High) needs after normalize
HighColumns == Len(IntStr(s26.High))

\* the value High + Low of the Phase that to_str26 was called on is negative
Str26Negative ==
    IF Len(s26.aHigh.digits) <= 8 THEN 4 * BigProxy(s26.aHigh) + s26.aLow < 0
    ELSE s26.aHigh.neg

\* the string that the layout rules give when High fits its field: blanks,
\* the sign, the integer digits, the separator, the fraction digits
Layout(d) ==
    LET m == IF s26.Low < 0 THEN -s26.Low ELSE s26.Low
        minus == s26.High.neg \/ (BigIsZero(s26.High) /\ s26.Low < 0)
        field == (IF minus THEN <<"-">> ELSE <<>>)
                 \o [i \in 1..Len(s26.High.digits) |-> DigitChar(s26.High.digits[i])]
        frac == [i \in 1..d |-> IF i = 1 THEN DigitChar((25 * (m % 4)) \div 10)
                                ELSE IF i = 2 THEN DigitChar((25 * (m % 4)) % 10)
                                ELSE "0"]
    IN  [i \in 1..(25 - d - Len(field)) |-> " "] \o field \o <<s26.sep>> \o frac

\* C21: to_str26 returns exactly 26 characters for every Phase and every
\* decimals asked for.  Decimals below 7 count as 7 and above 11 as 11.  When
\* the integer part fits into 25 - decimals columns the result is that field,
\* right-justified, followed by the separator and exactly decimals digits;
\* when it needs more columns the result is the first 26 characters of
\* integer part, separator and fraction digits.
C21_Always26Characters ==
    Str26Done =>
        LET d == IF s26.decimals < 7 THEN 7 ELSE IF s26.decimals > 11 THEN 11 ELSE s26.decimals
        IN  /\ Len(s26.result) = 26
            /\ s26.result = SubSeq(Layout(d), 1, 26)
            /\ HighColumns <= 25 - d =>
                 /\ Len(Layout(d)) = 26
                 /\ s26.result[26 - d] = s26.sep
                 /\ \A i \in (27 - d)..26 : IsDigit(s26.result[i])
                 /\ \A i \in 1..(25 - d) : s26.result[i] # s26.sep

\* an integer part that needed more columns than its field was cut to 26
C21_Witness ==
    /\ Str26Done
    /\ s26.decimals > 11
    /\ HighColumns > 14
    /\ HighColumns < 26
    /\ Len(s26.result) = 26

\* C22: for a Phase of negative value and decimals in 7..11 the result has a
\* '-' directly left of the integer digits, with blanks only before it; when
\* the normalized High is 0 and Low < 0, the '-' is at column 23 - decimals
\* (counted from 0), directly before the '0', and the rest of the result is
\* what it is without the sign.
C22_SignNeverLost ==
    (Str26Done /\ Str26Negative /\ s26.decimals \in 7..11) =>
        LET d == s26.decimals
            unsigned == [i \in 1..(24 - d) |-> " "] \o <<"0">>
                        \o SubSeq(s26.result, 26 - d, 26)
        IN  /\ \E i \in 1..25 :
                 /\ s26.result[i] = "-"
                 /\ IsDigit(s26.result[i + 1])
                 /\ \A j \in 1..(i - 1) : s26.result[j] = " "
            /\ (BigIsZero(s26.High) /\ s26.Low < 0) =>
                 /\ s26.result[23 - d + 1] = "-"
                 /\ s26.result[24 - d + 1] = "0"
                 /\ [s26.result EXCEPT ![23 - d + 1] = " "] = unsigned

\* a Phase with High = -1 and Low > 0 was formatted: High became 0
C22_Witness ==
    /\ Str26Done
    /\ s26.aHigh = BigOfInt(-1)
    /\ s26.aLow \in 1..3
    /\ s26.decimals \in 7..11
    /\ BigIsZero(s26.High)
    /\ s26.Low < 0
    /\ s26.result[23 - s26.decimals + 1] = "-"


(***************************************************************************)
(* One caller, reports of every kind: device-ms and the channel lists of   *)
(* the two string forms                                                    *)
(***************************************************************************)
\* a call of report.get_device_ms()
CallGetDeviceMs(t) ==
    /\ rep[t].pc = "done"
    /\ "get_device_ms" \notin rep[t].asked
    /\ rep' = [rep EXCEPT ![t].asked = @ \cup {"get_device_ms"},
                          ![t].device_ms = get_device_ms(buf[t])]
    /\ UNCHANGED <<drivers, aPhase, hd, buf, cls_floats, cls_ints, cls_phases, touched>>

\* values of the c_int64 field DeviceMs
DeviceMsValues == {-2147483647, -1, 0, 1, 7, 2147483647}

MeasLens == {0, 8, 16, 48}

MeasFrames ==
    { Frame(tag, 1, 12869, len, ms, 1) : tag \in 0..5, len \in MeasLens, ms \in DeviceMsValues }
    \cup { Frame(3, 1, 12869, 400, 7, 1) }

NextMeas ==
    \/ \E f \in MeasFrames : GetReportStruct(1, f)
    \/ Constructor(1)
    \/ CallGetDeviceMs(1)
    \/ CallToLogStr(1)
    \/ CallToDbgStr(1)

SpecMeas == Init /\ [][NextMeas]_vars

DeviceMsAsked == rep[1].pc = "done" /\ "get_device_ms" \in rep[1].asked

\* C23: for a frame of a kind other than None the decoded device-ms is the
\* frame's DeviceMs field unchanged, whatever its value (-1 and 0 included);
\* for a frame of kind None it is -1 whatever the field contains.
C23_DeviceMsUnchanged ==
    DeviceMsAsked =>
        rep[1].device_ms =
            [exc |-> "",
             val |-> IF CByte(buf[1].ReportType) = 0 THEN -1 ELSE buf[1].DeviceMs]

\* device-ms was asked of a report of kind None whose field is 7, and of a
\* Message report whose field is -1
C23_Witness ==
    /\ DeviceMsAsked
    /\ \/ CByte(buf[1].ReportType) = 0 /\ buf[1].DeviceMs = 7 /\ rep[1].device_ms.val = -1
       \/ CByte(buf[1].ReportType) = 2 /\ buf[1].DeviceMs = -1 /\ rep[1].device_ms.val = -1

\* the ";" pieces of a string
Separators(str) == { i \in 1..Len(str) : str[i] = Lit(";") }

\* the channel values of a string
ChannelValues(str) ==
    { i \in 1..Len(str) : str[i].k \in {"float", "floatbits", "floatsum", "hexint", "str26"} }

\* str lists n channel values joined by ";"
JoinedBySemicolon(str, n) ==
    /\ Cardinality(ChannelValues(str)) = n
    /\ Cardinality(Separators(str)) = IF n = 0 THEN 0 ELSE n - 1
    /\ n >= 1 => str[Len(str)] # Lit(";")

\* C24: for a Phase, Double or Int32 report with n decoded channels, each of
\* to_log_str and to_dbg_str lists exactly n channel values joined by ";":
\* n - 1 separators and no trailing ";" for n >= 1, no value and no
\* separator for n = 0.
C24_ChannelsJoinedBySemicolon ==
    (rep[1].pc = "done" /\ MeasurementKind(buf[1])) =>
        /\ rep[1].log_set => JoinedBySemicolon(rep[1].log_str, rep[1].channelCount)
        /\ rep[1].dbg_set => JoinedBySemicolon(rep[1].dbg_str, rep[1].channelCount)


(***************************************************************************)
(* alliedvision Camera: one caller thread, the acquisition thread and the  *)
(* camera's frame delivery                                                 *)
(*   cam.caller   where the caller is: idle, acquiring (blocked in         *)
(*                self._lock.__enter__), locked (inside the with block),   *)
(*                joining (in self._thread.join()), retrieving (blocked in *)
(*                self._images.get())                                      *)
(*   cam.lock     who acquired self._lock last and has not released it     *)
(*   cam.stop     self._stop.is_set()                                      *)
(*   cam.thread   self._thread is not None                                 *)
(*   cam.acq      where acquisition_loop is: none, started, opening,       *)
(*                looping, stopping, closing, ended, raised                *)
(*   cam.streaming  start_streaming(frame_handler) has run and             *)
(*                stop_streaming() has not                                 *)
(*   cam.pending  frames the camera has exposed and not yet handed over    *)
(*   cam.images   self._images.qsize()                                     *)
(***************************************************************************)
MaxTriggers == 2

MaxSessions == 2

\* the operations that run inside "with self._lock:"
Triggers == {"software_trigger", "action_command_trigger"}

LockedOps == {"configure", "name", "model", "serial", "width", "height"} \cup Triggers

\* the caller calls a property or method that takes the lock
Camera_call(op) ==
    /\ cam.caller = "idle"
    /\ op \in Triggers => cam.triggers < MaxTriggers
    /\ cam' = [cam EXCEPT !.caller = "acquiring", !.op = op]
    /\ UNCHANGED <<buf, rep, cls_floats, cls_ints, cls_phases, touched, aPhase, hd, s26, fc, wm>>

\* with self._lock: the caller gets the lock once it is free
Camera_enter ==
    /\ cam.caller = "acquiring"
    /\ cam.lock = "free"
    /\ cam' = [cam EXCEPT !.caller = "locked", !.lock = "caller"]
    /\ UNCHANGED <<buf, rep, cls_floats, cls_ints, cls_phases, touched, aPhase, hd, s26, fc, wm>>

\* the body of the with block runs and the lock is released.  A trigger
\* exposes a frame only on a camera that is streaming.
Camera_leave ==
    /\ cam.caller = "locked"
    /\ cam' = IF cam.op \in Triggers
                THEN [cam EXCEPT !.caller = "idle", !.lock = "free", !.op = "",
                                 !.triggers = @ + 1,
                                 !.pending = IF cam.streaming THEN @ + 1 ELSE @,
                                 !.lost = IF cam.streaming THEN @ ELSE @ + 1,
                                 !.due = IF cam.in_ctx THEN @ + 1 ELSE @]
                ELSE [cam EXCEPT !.caller = "idle", !.lock = "free", !.op = ""]
    /\ UNCHANGED <<buf, rep, cls_floats, cls_ints, cls_phases, touched, aPhase, hd, s26, fc, wm>>

\* start_acquisition(): clears the event, creates and starts the thread, returns
start_acquisition ==
    /\ cam.caller = "idle"
    /\ ~cam.in_ctx
    /\ cam.sessions < MaxSessions
    /\ cam' = [cam EXCEPT !.stop = FALSE, !.thread = TRUE, !.acq = "started",
                          !.in_ctx = TRUE, !.due = 0, !.sessions = @ + 1]
    /\ UNCHANGED <<buf, rep, cls_floats, cls_ints, cls_phases, touched, aPhase, hd, s26, fc, wm>>

\* acquisition_loop: self._lock.acquire()
acquisition_loop_acquire ==
    /\ cam.acq = "started"
    /\ cam.lock = "free"
    /\ cam' = [cam EXCEPT !.acq = "opening", !.lock = "acq"]
    /\ UNCHANGED <<buf, rep, cls_floats, cls_ints, cls_phases, touched, aPhase, hd, s26, fc, wm>>

\* acquisition_loop: the camera is opened and streaming starts, then
\* self._lock.release(); or one of these calls raises and the thread ends
acquisition_loop_open(ok) ==
    /\ cam.acq = "opening"
    /\ cam' = IF ok THEN [cam EXCEPT !.acq = "looping", !.streaming = TRUE, !.lock = "free"]
              ELSE [cam EXCEPT !.acq = "raised"]
    /\ UNCHANGED <<buf, rep, cls_floats, cls_ints, cls_phases, touched, aPhase, hd, s26, fc, wm>>

\* acquisition_loop: while not self._stop.is_set() ends
acquisition_loop_stopped ==
    /\ cam.acq = "looping"
    /\ cam.stop
    /\ cam' = [cam EXCEPT !.acq = "stopping"]
    /\ UNCHANGED <<buf, rep, cls_floats, cls_ints, cls_phases, touched, aPhase, hd, s26, fc, wm>>

\* acquisition_loop: the second self._lock.acquire()
acquisition_loop_reacquire ==
    /\ cam.acq = "stopping"
    /\ cam.lock = "free"
    /\ cam' = [cam EXCEPT !.acq = "closing", !.lock = "acq"]
    /\ UNCHANGED <<buf, rep, cls_floats, cls_ints, cls_phases, touched, aPhase, hd, s26, fc, wm>>

\* acquisition_loop: AcquisitionStop, stop_streaming, the camera is closed
\* and the thread function returns
acquisition_loop_close ==
    /\ cam.acq = "closing"
    /\ cam' = [cam EXCEPT !.acq = "ended", !.streaming = FALSE, !.pending = 0]
    /\ UNCHANGED <<buf, rep, cls_floats, cls_ints, cls_phases, touched, aPhase, hd, s26, fc, wm>>

\* frame_handler: the camera hands a frame over, it is put into the queue
frame_handler ==
    /\ cam.streaming
    /\ cam.pending > 0
    /\ cam' = [cam EXCEPT !.pending = @ - 1, !.images = @ + 1]
    /\ UNCHANGED <<buf, rep, cls_floats, cls_ints, cls_phases, touched, aPhase, hd, s26, fc, wm>>

\* stop_acquisition(): self._stop.set()
stop_acquisition_set ==
    /\ cam.caller = "idle"
    /\ cam' = [cam EXCEPT !.caller = "joining", !.stop = TRUE]
    /\ UNCHANGED <<buf, rep, cls_floats, cls_ints, cls_phases, touched, aPhase, hd, s26, fc, wm>>

\* stop_acquisition(): the thread, if there is one, is joined; self._thread = None
stop_acquisition_join ==
    /\ cam.caller = "joining"
    /\ cam.thread => cam.acq \in {"ended", "raised"}
    /\ cam' = [cam EXCEPT !.caller = "idle", !.thread = FALSE, !.in_ctx = FALSE]
    /\ UNCHANGED <<buf, rep, cls_floats, cls_ints, cls_phases, touched, aPhase, hd, s26, fc, wm>>

\* retrieve_image() is called for a trigger issued in this context
retrieve_image_call ==
    /\ cam.caller = "idle"
    /\ cam.in_ctx
    /\ cam.due > 0
    /\ cam' = [cam EXCEPT !.caller = "retrieving"]
    /\ UNCHANGED <<buf, rep, cls_floats, cls_ints, cls_phases, touched, aPhase, hd, s26, fc, wm>>

\* self._images.get() returns once the queue holds an image
retrieve_image_return ==
    /\ cam.caller = "retrieving"
    /\ cam.images > 0
    /\ cam' = [cam EXCEPT !.caller = "idle", !.images = @ - 1, !.due = @ - 1]
    /\ UNCHANGED <<buf, rep, cls_floats, cls_ints, cls_phases, touched, aPhase, hd, s26, fc, wm>>

InitCamera ==
    /\ KKIdle
    /\ cam = NoCamera
    /\ s26 = NoStr26 /\ fc = NoCounter /\ wm = NoWavemeter

\* the steps of the acquisition thread
acquisition_loop ==
    \/ acquisition_loop_acquire
    \/ \E ok \in BOOLEAN : acquisition_loop_open(ok)
    \/ acquisition_loop_stopped
    \/ acquisition_loop_reacquire
    \/ acquisition_loop_close

\* the steps by which a call in progress goes on
CallerGoesOn ==
    \/ Camera_enter
    \/ Camera_leave
    \/ stop_acquisition_join
    \/ retrieve_image_return

\* the calls the caller may make
CallerCalls ==
    \/ \E op \in LockedOps : Camera_call(op)
    \/ start_acquisition
    \/ stop_acquisition_set
    \/ retrieve_image_call

NextCamera ==
    \/ CallerCalls
    \/ CallerGoesOn
    \/ acquisition_loop
    \/ frame_handler

SpecCamera == InitCamera /\ [][NextCamera]_vars

\* Threads that can run do run: the acquisition thread, the caller inside a
\* call, and the camera's frame delivery.  The caller need not make calls.
SpecCameraFair ==
    /\ InitCamera
    /\ [][NextCamera]_vars
    /\ WF_vars(acquisition_loop)
    /\ WF_vars(CallerGoesOn)
    /\ WF_vars(frame_handler)

\* C25: inside an acquisition context a trigger followed by retrieve_image()
\* eventually returns an image under every interleaving: a caller blocked in
\* retrieve_image() for a trigger of this context gets out of it.
C25_TriggerThenImage == (cam.caller = "retrieving") ~> (cam.caller = "idle")

\* C29: the lock is free whenever no operation is in progress: when the
\* caller is in no call and the acquisition thread is not running (it was
\* never started, has returned or has raised), nobody holds the lock.
C29_LockFreeWhenIdle ==
    (cam.caller = "idle" /\ cam.acq \in {"none", "ended", "raised"}) => cam.lock = "free"


(***************************************************************************)
(* kandk FrequencyCounter: one caller and the native library               *)
(*   fc.sid         self._sid, 0 for None                                  *)
(*   fc.pc          idle, or polling inside report()                       *)
(*   fc.polled      report() has run its loop body at least once           *)
(*   fc.last        the last call that ended: its name, the exception it   *)
(*                  raised ("" for none) and the value it returned         *)
(*   fc.sources     source ids handed out by CreateMultiSource             *)
(*   fc.connected   the library holds an open connection for fc.sid        *)
(*   fc.connections calls of Multi_OpenConnection that succeeded           *)
(*   fc.closes      calls of Multi_CloseConnection                         *)
(* get_kk_report and KK_Report are those of the first caller above.        *)
(***************************************************************************)
MaxOpens == 3

\* channels: the number of channels the counter is configured with (8 by default)
FcChannels == 2

\* What the library calls of open() can do.  NativeLib defines no method
\* set_server_ip_for_peer, so with this kklib the attribute lookup raises
\* ("peer_raise"); the other outcomes are those of a library that has it:
\* an error code from it, an error code from open_connection, success.
OpenOutcomes == {"peer_raise", "peer_err", "conn_err", "ok"}

\* the reports Multi_GetReportStruct delivers to a counter of FcChannels
\* channels: none, Double reports of the right and of other lengths,
\* reports of the other kinds, a report with an unknown tag
FcFrames ==
    { Frame(4, 1, 12869, len, 7, 1) : len \in {0, 8, 12, 8 * FcChannels, 8 * FcChannels + 8} }
    \cup { Frame(tag, 1, 12869, 16, 7, 1) : tag \in {0, 1, 2, 3, 5, 6} }

\* FrequencyCounter.open()
FrequencyCounter_open(outcome) ==
    /\ fc.pc = "idle"
    /\ fc.sources < MaxOpens
    /\ fc' = IF fc.sid # 0
               THEN [fc EXCEPT !.last = [op |-> "open", exc |-> "RuntimeError: connection already open",
                                         val |-> <<>>]]
             ELSE CASE outcome = "peer_raise" ->
                         [fc EXCEPT !.sid = fc.sources + 1, !.sources = @ + 1,
                                    !.last = [op |-> "open", exc |-> "AttributeError", val |-> <<>>]]
                    [] outcome = "peer_err" ->
                         [fc EXCEPT !.sid = fc.sources + 1, !.sources = @ + 1,
                                    !.last = [op |-> "open", exc |-> "RuntimeError: Error setting peer ip",
                                              val |-> <<>>]]
                    [] outcome = "conn_err" ->
                         [fc EXCEPT !.sid = fc.sources + 1, !.sources = @ + 1,
                                    !.last = [op |-> "open", exc |-> "RuntimeError: Error opening connection",
                                              val |-> <<>>]]
                    [] outcome = "ok" ->
                         [fc EXCEPT !.sid = fc.sources + 1, !.sources = @ + 1,
                                    !.connected = TRUE, !.connections = @ + 1,
                                    !.last = [op |-> "open", exc |-> "", val |-> <<>>]]
    /\ UNCHANGED <<buf, rep, cls_floats, cls_ints, cls_phases, touched, aPhase, hd, s26, cam, wm>>

\* FrequencyCounter.close()
FrequencyCounter_close ==
    /\ fc.pc = "idle"
    /\ fc' = IF fc.sid = 0
               THEN [fc EXCEPT !.last = [op |-> "close", exc |-> "RuntimeError: connection not open",
                                         val |-> <<>>]]
               ELSE [fc EXCEPT !.sid = 0, !.connected = FALSE, !.closes = @ + 1,
                               !.last = [op |-> "close", exc |-> "", val |-> <<>>]]
    /\ UNCHANGED <<buf, rep, cls_floats, cls_ints, cls_phases, touched, aPhase, hd, s26, cam, wm>>

\* FrequencyCounter.report() is called: the check of self._sid and the deadline
report_call ==
    /\ fc.pc = "idle"
    /\ fc' = IF fc.sid = 0
               THEN [fc EXCEPT !.last = [op |-> "report", exc |-> "RuntimeError: connection not open",
                                         val |-> <<>>]]
               ELSE [fc EXCEPT !.pc = "polling", !.polled = FALSE]
    /\ UNCHANGED <<buf, rep, cls_floats, cls_ints, cls_phases, touched, aPhase, hd, s26, cam, wm>>

\* report(): report = self._lib.get_kk_report(self._sid) starts
report_poll(f) ==
    /\ fc.pc = "polling"
    /\ GetReportStruct(1, f)

\* report(): KK_Report(c_report_struct) runs
report_decode ==
    /\ fc.pc = "polling"
    /\ Constructor(1)

\* report(): the constructor raised; the exception leaves report()
report_raised ==
    /\ fc.pc = "polling"
    /\ rep[1].pc = "raised"
    /\ fc' = [fc EXCEPT !.pc = "idle", !.last = [op |-> "report", exc |-> rep[1].exc, val |-> <<>>]]
    /\ rep' = [rep EXCEPT ![1] = NoReport]
    /\ UNCHANGED <<buf, cls_floats, cls_ints, cls_phases, touched, aPhase, hd, s26, cam, wm>>

\* report(): a Double report is returned as report._floats, any other one
\* is dropped and the loop sleeps
report_check ==
    /\ fc.pc = "polling"
    /\ rep[1].pc = "done"
    /\ fc' = IF get_report_type(buf[1]) = "RT_DOUBLE"
               THEN [fc EXCEPT !.pc = "idle", !.last = [op |-> "report", exc |-> "", val |-> cls_floats]]
               ELSE [fc EXCEPT !.polled = TRUE]
    /\ rep' = [rep EXCEPT ![1] = NoReport]
    /\ UNCHANGED <<buf, cls_floats, cls_ints, cls_phases, touched, aPhase, hd, s26, cam, wm>>

\* report(): time.monotonic() < deadline is false at the head of the loop
\* (with a positive timeout, not before the first pass)
report_timeout ==
    /\ fc.pc = "polling"
    /\ fc.polled
    /\ rep[1].pc = "idle"
    /\ fc' = [fc EXCEPT !.pc = "idle", !.last = [op |-> "report", exc |-> "TimeoutError", val |-> <<>>]]
    /\ UNCHANGED <<buf, rep, cls_floats, cls_ints, cls_phases, touched, aPhase, hd, s26, cam, wm>>

InitCounter ==
    /\ KKIdle
    /\ fc = NoCounter
    /\ s26 = NoStr26 /\ cam = NoCamera /\ wm = NoWavemeter

NextCounter ==
    \/ \E outcome \in OpenOutcomes : FrequencyCounter_open(outcome)
    \/ FrequencyCounter_close
    \/ report_call
    \/ \E f \in FcFrames : report_poll(f)
    \/ report_decode
    \/ report_raised
    \/ report_check
    \/ report_timeout

SpecCounter == InitCounter /\ [][NextCounter]_vars

\* C26: on a counter whose source id is set, every report() call returns a
\* non-empty list of exactly FcChannels values, or raises TimeoutError:
\* whatever the library delivers while report() polls.
C26_ReportReturnsAllChannels ==
    (fc.pc = "idle" /\ fc.last.op = "report"
        /\ fc.last.exc # "RuntimeError: connection not open") =>
        \/ fc.last.exc = "TimeoutError"
        \/ fc.last.exc = "" /\ Len(fc.last.val) = FcChannels /\ FcChannels > 0

\* C27: the native connection is closed at most once per successful open;
\* open() on a counter whose source id is set, and report() or close() on one
\* whose source id is unset, raise RuntimeError and leave the source id as it
\* is; after a close() that returned, the source id is unset.
C27_TwoStateLifecycle ==
    /\ fc.closes <= fc.connections
    /\ fc.connected => fc.sid # 0
    /\ (fc.last.op = "close" /\ fc.last.exc = "") => fc.sid = 0
    /\ fc.last.exc = "RuntimeError: connection already open" => fc.sid # 0
    /\ fc.last.exc = "RuntimeError: connection not open" => fc.sid = 0

\* C28: a failed open() leaves the counter closed: after an open() that
\* raised for another reason than 'connection already open', the source id
\* is unset.
C28_FailedOpenLeavesClosed ==
    (fc.last.op = "open" /\ fc.last.exc # ""
        /\ fc.last.exc # "RuntimeError: connection already open") => fc.sid = 0


(***************************************************************************)
(* highfinesse Wavemeter: one caller and the wlmData library               *)
(*   wm.dll        self._dll is not None                                   *)
(*   wm.handle     self._handle: 0 for None, else the number of the        *)
(*                 callback object that listen() created                   *)
(*   wm.installed  the callback installed in the library by Instantiate,   *)
(*                 0 for none                                              *)
(*   wm.handles    callback objects created so far                         *)
(*   wm.events     events the installed callback has sent to self._data    *)
(*   wm.last       the last call that ended and the exception it raised    *)
(***************************************************************************)
MaxListens == 2

MaxEvents == 2

\* LoadDLL raises OSError; GetWLMCount(0) returns 0; neither
WavemeterOpenOutcomes == {"load_fail", "no_server", "ok"}

\* the methods that read a value through self._dll
WavemeterGetters == {"version", "frequency", "wavelength", "temperature", "pressure", "exposure"}

\* Wavemeter.open()
Wavemeter_open(outcome) ==
    /\ wm' = CASE outcome = "load_fail" ->
                    [wm EXCEPT !.last = [op |-> "open", exc |-> "RuntimeError: Could not load wlmData DLL"]]
               [] outcome = "no_server" ->
                    [wm EXCEPT !.dll = TRUE,
                               !.last = [op |-> "open", exc |-> "RuntimeError: No running WLM server instance found."]]
               [] outcome = "ok" ->
                    [wm EXCEPT !.dll = TRUE, !.last = [op |-> "open", exc |-> ""]]
    /\ UNCHANGED <<buf, rep, cls_floats, cls_ints, cls_phases, touched, aPhase, hd, s26, fc, cam>>

\* Wavemeter.close()
Wavemeter_close ==
    /\ wm' = [wm EXCEPT !.dll = FALSE, !.last = [op |-> "close", exc |-> ""]]
    /\ UNCHANGED <<buf, rep, cls_floats, cls_ints, cls_phases, touched, aPhase, hd, s26, fc, cam>>

\* Wavemeter.version(), frequency(), wavelength(), temperature(), pressure(), exposure()
Wavemeter_get(g) ==
    /\ wm' = [wm EXCEPT !.last = [op |-> g,
                                  exc |-> IF wm.dll THEN "" ELSE "RuntimeError: Wavemeter not open"]]
    /\ UNCHANGED <<buf, rep, cls_floats, cls_ints, cls_phases, touched, aPhase, hd, s26, fc, cam>>

\* Wavemeter.listen()
listen ==
    /\ wm.handles < MaxListens
    /\ wm' = IF ~wm.dll
               THEN [wm EXCEPT !.last = [op |-> "listen", exc |-> "RuntimeError: Wavemeter not open"]]
             ELSE IF wm.handle # 0
               THEN [wm EXCEPT !.last = [op |-> "listen",
                                         exc |-> "RuntimeError: Already listening for callbacks"]]
             ELSE [wm EXCEPT !.handle = wm.handles + 1, !.installed = wm.handles + 1,
                             !.handles = @ + 1, !.last = [op |-> "listen", exc |-> ""]]
    /\ UNCHANGED <<buf, rep, cls_floats, cls_ints, cls_phases, touched, aPhase, hd, s26, fc, cam>>

\* Wavemeter.unlisten()
unlisten ==
    /\ wm' = IF ~wm.dll
               THEN [wm EXCEPT !.last = [op |-> "unlisten", exc |-> "RuntimeError: Wavemeter not open"]]
             ELSE IF wm.handle = 0
               THEN [wm EXCEPT !.last = [op |-> "unlisten",
                                         exc |-> "RuntimeError: Not currently listening for callbacks"]]
             ELSE [wm EXCEPT !.handle = 0, !.installed = 0, !.last = [op |-> "unlisten", exc |-> ""]]
    /\ UNCHANGED <<buf, rep, cls_floats, cls_ints, cls_phases, touched, aPhase, hd, s26, fc, cam>>

\* the library calls the installed callback: handle(mode, intval, dblval)
handle ==
    /\ wm.installed # 0
    /\ wm.events < MaxEvents
    /\ wm' = [wm EXCEPT !.events = @ + 1]
    /\ UNCHANGED <<buf, rep, cls_floats, cls_ints, cls_phases, touched, aPhase, hd, s26, fc, cam>>

InitWavemeter ==
    /\ KKIdle
    /\ wm = NoWavemeter
    /\ s26 = NoStr26 /\ fc = NoCounter /\ cam = NoCamera

NextWavemeter ==
    \/ \E outcome \in WavemeterOpenOutcomes : Wavemeter_open(outcome)
    \/ Wavemeter_close
    \/ \E g \in WavemeterGetters : Wavemeter_get(g)
    \/ listen
    \/ unlisten
    \/ handle

SpecWavemeter == InitWavemeter /\ [][NextWavemeter]_vars

\* C30: close() returns the driver to its initial state: whenever the driver
\* is closed, no callback is installed in the library and no handle is kept
\* (so that listen() succeeds after a new open()); a call that raised
\* 'Wavemeter not open' was made on a closed driver, 'Already listening' on a
\* driver with a handle and 'Not currently listening' on one without.
C30_CloseRestoresInitialState ==
    /\ ~wm.dll => (wm.installed = 0 /\ wm.handle = 0)
    /\ wm.last.exc = "RuntimeError: Wavemeter not open" => ~wm.dll
    /\ wm.last.exc = "RuntimeError: Already listening for callbacks" => wm.handle # 0
    /\ wm.last.exc = "RuntimeError: Not currently listening for callbacks" => wm.handle = 0

====
